---- MODULE Spec2Model ----
(***************************************************************************)
(* gfx-sandbox: the glTF viewer application, its WebGPU renderer and the   *)
(* environment preprocessing helpers (PanoramaToCubemapConverter,          *)
(* MipmapGenerator), modelled as state machines.                           *)
(*                                                                         *)
(*   Spec     the application: OnInit, OnFrame/Render, OnFileDropped,      *)
(*            OnResize, the shader reload key, the GPU retiring frames,    *)
(*            delivery of device errors.                                   *)
(*   SpecEnv  the Environment class on its own: Load and UpdateRotation.   *)
(*   SpecMip  the helper objects on their own: texture creation, the       *)
(*            panorama resampler and the three mip generator paths, with   *)
(*            every pass they record.                                      *)
(***************************************************************************)
EXTENDS Integers, Sequences, FiniteSets, TLC

\* ----------------------------------------------------------------------
\* Bounds of the model

MaxLoads == 2        \* environment loads performed by one renderer
MaxInFlight == 2     \* frames submitted and not yet retired by the GPU
MaxDim == 3          \* texture extents 1..MaxDim (plus RepresentativeDims)
MaxCalls == 3        \* calls made on one helper object
MaxVkFrames == 4     \* frames one VulkanRenderer submits

\* ----------------------------------------------------------------------
\* Program constants

kIrradianceMapSize == 64
kPrecomputedSpecularMapSize == 512
kBRDFIntegrationLUTMapSize == 128
kMaxEnvironmentWidth == 4096
kDownsampledWidth == 4096
kDownsampledHeight == 2048
numFaces == 6
workgroupSize == 8

Faces == 0 .. (numFaces - 1)

\* ----------------------------------------------------------------------
\* File names (sequences of characters) and decoder outcomes

HelipadHdr == <<"h", ".", "h", "d", "r">>
FileNames ==
    { <<"s", ".", "H", "d", "R">>,
      <<"m", ".", "g", "l", "b">>,
      <<"m", ".", "G", "L", "T", "F">>,
      <<"a", ".", "h", "d", "r", ".", "t", "x", "t">>,
      <<"h", "d", "r">> }

\* What stb_image can return for a file: no image, or an image of some size.
NoImage == [ok |-> FALSE, w |-> 0, h |-> 0]
DecodedImages == { [ok |-> TRUE, w |-> 2, h |-> 1],
                   [ok |-> TRUE, w |-> 4, h |-> 4],
                   [ok |-> TRUE, w |-> 8192, h |-> 4096] }
DecodeResults == {NoImage} \cup DecodedImages

\* ----------------------------------------------------------------------
\* Pure helpers

Max(a, b) == IF a >= b THEN a ELSE b

RECURSIVE FloorPow2Loop(_, _)
FloorPow2Loop(power, x) ==
    IF power * 2 <= x THEN FloorPow2Loop(power * 2, x) ELSE power

\* Mutant: power starts at 2.
FloorPow2_FromTwo(x) == FloorPow2Loop(2, x)

FloorPow2(x) == FloorPow2Loop(1, x)

RECURSIVE FloorPow2Iterations(_, _)
\* The number of times the body of FloorPow2's loop runs.
FloorPow2Iterations(power, x) ==
    IF power * 2 <= x THEN 1 + FloorPow2Iterations(power * 2, x) ELSE 0

\* std::tolower on the characters that occur in FileNames
ToLowerChar(c) ==
    CASE c = "H" -> "h"
      [] c = "D" -> "d"
      [] c = "R" -> "r"
      [] c = "G" -> "g"
      [] c = "L" -> "l"
      [] c = "T" -> "t"
      [] c = "F" -> "f"
      [] c = "B" -> "b"
      [] OTHER -> c

\* std::string::find_last_of('.'): the last index holding '.', 0 for npos
FindLastOf(s, c) ==
    LET hits == { i \in 1 .. Len(s) : s[i] = c }
    IN  IF hits = {} THEN 0 ELSE CHOOSE i \in hits : \A j \in hits : j <= i

\* Mutant: the extension is compared as typed.
Extension_CaseSensitive(filename) ==
    LET dotPos == FindLastOf(filename, ".")
    IN  IF dotPos = 0 THEN <<>> ELSE SubSeq(filename, dotPos + 1, Len(filename))

Extension(filename) ==
    LET dotPos == FindLastOf(filename, ".")
        raw == IF dotPos = 0 THEN <<>> ELSE SubSeq(filename, dotPos + 1, Len(filename))
    IN  [i \in 1 .. Len(raw) |-> ToLowerChar(raw[i])]

\* ----------------------------------------------------------------------
\* Environment (renderer/scene/Environment.cpp)

EmptyName == <<>>
EmptyTexture == [name |-> EmptyName, width |-> 0, height |-> 0, components |-> 0, dataLen |-> 0]
NewEnvironment == [texture |-> EmptyTexture, transform |-> "identity"]

\* Mutant: only the width is brought down to the target.
DownsampleTexture_KeepsHeight(texture, origWidth, origHeight) ==
    [texture EXCEPT !.width = kDownsampledWidth,
                    !.height = origHeight,
                    !.dataLen = kDownsampledWidth * origHeight * 4]

DownsampleTexture(texture, origWidth, origHeight) ==
    [texture EXCEPT !.width = kDownsampledWidth,
                    !.height = kDownsampledHeight,
                    !.dataLen = kDownsampledWidth * kDownsampledHeight * 4]

\* Mutant: the decoded size is stored before the aspect ratio is checked.
LoadFromSource_StoresFirst(texture, dec) ==
    IF ~dec.ok THEN [ok |-> FALSE, texture |-> texture]
    ELSE LET stored == [texture EXCEPT !.width = dec.w,
                                       !.height = dec.h,
                                       !.components = 4,
                                       !.dataLen = dec.w * dec.h * 4]
         IN  IF dec.w # 2 * dec.h THEN [ok |-> FALSE, texture |-> stored]
             ELSE [ok |-> TRUE,
                   texture |-> IF dec.w > kMaxEnvironmentWidth
                               THEN DownsampleTexture(stored, dec.w, dec.h)
                               ELSE stored]

LoadFromSource(texture, dec) ==
    IF ~dec.ok THEN [ok |-> FALSE, texture |-> texture]
    ELSE IF dec.w # 2 * dec.h THEN [ok |-> FALSE, texture |-> texture]
    ELSE LET stored == [texture EXCEPT !.width = dec.w,
                                       !.height = dec.h,
                                       !.components = 4,
                                       !.dataLen = dec.w * dec.h * 4]
         IN  [ok |-> TRUE,
              texture |-> IF dec.w > kMaxEnvironmentWidth
                          THEN DownsampleTexture(stored, dec.w, dec.h)
                          ELSE stored]

EnvironmentLoad(env, filename, dec) ==
    LET r == LoadFromSource(env.texture, dec)
    IN  IF r.ok
        THEN [ok |-> TRUE,
              env |-> [texture |-> [r.texture EXCEPT !.name = filename],
                       transform |-> "identity"]]
        ELSE [ok |-> FALSE, env |-> [env EXCEPT !.texture = r.texture]]

EnvironmentUpdateRotation(env, angle) ==
    [env EXCEPT !.transform = IF angle = 0 THEN "identity" ELSE "rotated"]

\* ----------------------------------------------------------------------
\* BackendRegistry (backends/common/BackendRegistry.cpp)

RegisteredBackends == {"webgpu"}
DefaultBackend == "webgpu"
BackendArgs == {"", "webgpu", "opengl"}

\* The names the backends register under, in the order of the std::map.
KnownBackends == <<"vulkan", "webgpu">>
BackendNameArgs == {"", "webgpu", "vulkan", "opengl"}

GetAvailableBackends(factories) == SelectSeq(KnownBackends, LAMBDA n : n \in factories)

\* Mutant: an unknown name falls back to the first registered factory.
Create_FirstRegistered(factories, name) ==
    IF factories = {} THEN [backend |-> "none", factoryCalls |-> 0]
    ELSE LET backendName == IF name = "" THEN DefaultBackend ELSE name
         IN  IF backendName \notin factories
             THEN [backend |-> GetAvailableBackends(factories)[1], factoryCalls |-> 1]
             ELSE [backend |-> backendName, factoryCalls |-> 1]

\* BackendRegistry::Create over the registered names; factoryCalls counts the
\* factory functions it invokes.
Create(factories, name) ==
    IF factories = {} THEN [backend |-> "none", factoryCalls |-> 0]
    ELSE LET backendName == IF name = "" THEN DefaultBackend ELSE name
         IN  IF backendName = "" THEN [backend |-> "none", factoryCalls |-> 0]
             ELSE IF backendName \notin factories
             THEN [backend |-> "none", factoryCalls |-> 0]
             ELSE [backend |-> backendName, factoryCalls |-> 1]

\* The name of the backend whose factory runs, "none" for a null renderer.
BackendRegistryCreate(name) == Create(RegisteredBackends, name).backend

\* ----------------------------------------------------------------------
\* WebgpuRenderer (backends/webgpu/WebgpuRenderer.cpp)
\*
\* A texture or view handle is 0 (null) or the number of the environment
\* load that created the object it refers to.

NullHandle == 0
NullBindGroup == [created |-> FALSE,
                  environment |-> [kind |-> "none", gen |-> 0],
                  irradiance |-> [kind |-> "none", gen |-> 0],
                  specular |-> [kind |-> "none", gen |-> 0],
                  brdfLut |-> [kind |-> "none", gen |-> 0]]

NoRenderer ==
    [backend |-> "none",
     isShutdown |-> FALSE,
     environmentTexture |-> NullHandle, environmentTextureView |-> NullHandle,
     iblIrradianceTexture |-> NullHandle, iblIrradianceTextureView |-> NullHandle,
     iblSpecularTexture |-> NullHandle, iblSpecularTextureView |-> NullHandle,
     iblBrdfIntegrationLUT |-> NullHandle, iblBrdfIntegrationLUTView |-> NullHandle,
     globalBindGroup |-> NullBindGroup,
     modelName |-> EmptyName,
     depthTexture |-> "none",
     pipelines |-> "none",
     device |-> FALSE]

\* The framebuffer sizes the depth texture is created for, and the contents of
\* the render shader files when they are read.
FramebufferSizes == {"initial", "resized"}
ShaderSources == {"startup", "edited", "missing"}

\* The resource-creating steps of one environment load, in program order.
\* A device error raised at step k and delivered at once ends the process
\* inside step k: steps 1..k-1 have completed, step k has assigned nothing.
StepMipmapGenerator == 1
StepConverter == 2
StepPreprocessor == 3
StepEnvironmentTexture == 4
StepIrradianceTexture == 5
StepSpecularTexture == 6
StepBrdfLut == 7
StepUploadAndConvert == 8
StepMipEnvironment == 9
StepGenerateMaps == 10
StepMipIrradiance == 11
StepEnd == 12

\* The failures explored: none (0), a helper's pipeline or shader module, the
\* first and the third IBL texture, the panorama texture.
FailPoints == {0, StepMipmapGenerator, StepEnvironmentTexture, StepSpecularTexture,
               StepUploadAndConvert}

IblHandles(r) ==
    [environmentTexture |-> r.environmentTexture,
     environmentTextureView |-> r.environmentTextureView,
     iblIrradianceTexture |-> r.iblIrradianceTexture,
     iblIrradianceTextureView |-> r.iblIrradianceTextureView,
     iblSpecularTexture |-> r.iblSpecularTexture,
     iblSpecularTextureView |-> r.iblSpecularTextureView,
     iblBrdfIntegrationLUT |-> r.iblBrdfIntegrationLUT,
     iblBrdfIntegrationLUTView |-> r.iblBrdfIntegrationLUTView]

\* Mutant: the environment mips are generated before the panorama is resampled.
EnvironmentStages_MipFirst(environmentCubeSize) ==
    << [step |-> StepUploadAndConvert, stage |-> "GenerateMipmaps",
        target |-> "environment", size |-> environmentCubeSize],
       [step |-> StepMipEnvironment, stage |-> "UploadAndConvert",
        target |-> "environment", size |-> environmentCubeSize],
       [step |-> StepGenerateMaps, stage |-> "GenerateMaps",
        target |-> "environment", size |-> environmentCubeSize],
       [step |-> StepMipIrradiance, stage |-> "GenerateMipmaps",
        target |-> "irradiance", size |-> kIrradianceMapSize] >>

\* The submissions of CreateEnvironmentTextures, in the order of the code.
EnvironmentStages(environmentCubeSize) ==
    << [step |-> StepUploadAndConvert, stage |-> "UploadAndConvert",
        target |-> "environment", size |-> environmentCubeSize],
       [step |-> StepMipEnvironment, stage |-> "GenerateMipmaps",
        target |-> "environment", size |-> environmentCubeSize],
       [step |-> StepGenerateMaps, stage |-> "GenerateMaps",
        target |-> "environment", size |-> environmentCubeSize],
       [step |-> StepMipIrradiance, stage |-> "GenerateMipmaps",
        target |-> "irradiance", size |-> kIrradianceMapSize] >>

\* stop: the step at which the process exits, StepEnd when it does not.
CreateEnvironmentTextures(r, env, gen, stop) ==
    LET environmentCubeSize == FloorPow2(env.texture.width)
        made(step) == IF stop > step THEN gen ELSE NullHandle
    IN  [r |-> [r EXCEPT
                  !.environmentTexture = made(StepEnvironmentTexture),
                  !.environmentTextureView = made(StepEnvironmentTexture),
                  !.iblIrradianceTexture = made(StepIrradianceTexture),
                  !.iblIrradianceTextureView = made(StepIrradianceTexture),
                  !.iblSpecularTexture = made(StepSpecularTexture),
                  !.iblSpecularTextureView = made(StepSpecularTexture),
                  !.iblBrdfIntegrationLUT = made(StepBrdfLut),
                  !.iblBrdfIntegrationLUTView = made(StepBrdfLut)],
         log |-> SelectSeq(EnvironmentStages(environmentCubeSize),
                           LAMBDA s : s.step < stop)]

\* Mutant: the BRDF LUT binding always takes the fallback texture.
CreateGlobalBindGroup_FallbackLut(r) ==
    LET pick(view) == IF view # NullHandle
                      THEN [kind |-> "ibl", gen |-> view]
                      ELSE [kind |-> "default", gen |-> 0]
    IN  [r EXCEPT !.globalBindGroup =
            [created |-> TRUE,
             environment |-> pick(r.environmentTextureView),
             irradiance |-> pick(r.iblIrradianceTextureView),
             specular |-> pick(r.iblSpecularTextureView),
             brdfLut |-> [kind |-> "default", gen |-> 0]]]

CreateGlobalBindGroup(r) ==
    LET pick(view) == IF view # NullHandle
                      THEN [kind |-> "ibl", gen |-> view]
                      ELSE [kind |-> "default", gen |-> 0]
    IN  [r EXCEPT !.globalBindGroup =
            [created |-> TRUE,
             environment |-> pick(r.environmentTextureView),
             irradiance |-> pick(r.iblIrradianceTextureView),
             specular |-> pick(r.iblSpecularTextureView),
             brdfLut |-> pick(r.iblBrdfIntegrationLUTView)]]

\* Mutant: a BRDF LUT that already exists is kept and bound again.
UpdateEnvironment_KeepsLut(r, env, gen, failAt, spontaneous) ==
    LET stop == IF failAt # 0 /\ spontaneous THEN failAt ELSE StepEnd
        released == [r EXCEPT
                       !.environmentTexture = NullHandle,
                       !.environmentTextureView = NullHandle,
                       !.iblIrradianceTexture = NullHandle,
                       !.iblIrradianceTextureView = NullHandle,
                       !.iblSpecularTexture = NullHandle,
                       !.iblSpecularTextureView = NullHandle]
        made == CreateEnvironmentTextures(released, env, gen, stop)
        kept == IF r.iblBrdfIntegrationLUT # NullHandle
                THEN [made.r EXCEPT !.iblBrdfIntegrationLUT = r.iblBrdfIntegrationLUT,
                                    !.iblBrdfIntegrationLUTView = r.iblBrdfIntegrationLUTView]
                ELSE made.r
    IN  IF stop < StepEnd
        THEN [r |-> kept, log |-> made.log, exited |-> TRUE, pendingError |-> FALSE]
        ELSE [r |-> CreateGlobalBindGroup(kept),
              log |-> Append(made.log, [step |-> StepEnd, stage |-> "CreateGlobalBindGroup",
                                        target |-> "global", size |-> 0]),
              exited |-> FALSE,
              pendingError |-> (failAt # 0)]

\* failAt: the step whose resource creation fails (0: none); spontaneous:
\* whether the uncaptured-error callback (std::exit) runs inside the failing
\* call or is deferred to the next ProcessEvents.
UpdateEnvironment(r, env, gen, failAt, spontaneous) ==
    LET stop == IF failAt # 0 /\ spontaneous THEN failAt ELSE StepEnd
        released == [r EXCEPT
                       !.environmentTexture = NullHandle,
                       !.environmentTextureView = NullHandle,
                       !.iblIrradianceTexture = NullHandle,
                       !.iblIrradianceTextureView = NullHandle,
                       !.iblSpecularTexture = NullHandle,
                       !.iblSpecularTextureView = NullHandle,
                       !.iblBrdfIntegrationLUT = NullHandle,
                       !.iblBrdfIntegrationLUTView = NullHandle]
        made == CreateEnvironmentTextures(released, env, gen, stop)
    IN  IF stop < StepEnd
        THEN [r |-> made.r, log |-> made.log, exited |-> TRUE, pendingError |-> FALSE]
        ELSE [r |-> CreateGlobalBindGroup(made.r),
              log |-> Append(made.log, [step |-> StepEnd, stage |-> "CreateGlobalBindGroup",
                                        target |-> "global", size |-> 0]),
              exited |-> FALSE,
              pendingError |-> (failAt # 0)]

\* Mutant: the environment cubemap is let go of together with the buffers.
UpdateModel_ReleasesEnvironment(r, modelName) ==
    [r EXCEPT !.modelName = modelName,
              !.environmentTexture = NullHandle,
              !.environmentTextureView = NullHandle]

\* The vertex and index buffers, sub-meshes and materials of the model.
UpdateModel(r, modelName) == [r EXCEPT !.modelName = modelName]

\* CreateDepthTexture, ConfigureSurface
Resize(r, size) == [r EXCEPT !.depthTexture = size]

\* The render pipelines and shader modules are dropped and built again.
ReloadShaders(r, source) == [r EXCEPT !.pipelines = source]

\* Initialize -> InitGraphics: UpdateEnvironment, then UpdateModel.
Initialize(backend, env, modelName, gen, failAt, spontaneous) ==
    LET fresh == [NoRenderer EXCEPT !.backend = backend, !.isShutdown = FALSE,
                                    !.depthTexture = "initial", !.pipelines = "startup",
                                    !.device = TRUE]
        u == UpdateEnvironment(fresh, env, gen, failAt, spontaneous)
    IN  IF u.exited THEN u
        ELSE [u EXCEPT !.r = UpdateModel(u.r, modelName)]

\* The bindings a submitted frame samples
FrameOf(r) ==
    [environment |-> r.globalBindGroup.environment,
     irradiance |-> r.globalBindGroup.irradiance,
     specular |-> r.globalBindGroup.specular,
     brdfLut |-> r.globalBindGroup.brdfLut]

\* ----------------------------------------------------------------------
\* Mip level counts

Min(a, b) == IF a <= b THEN a ELSE b

\* The integer part of std::log2(x) for x >= 1.  The code takes it with
\* std::floor or with static_cast<uint32_t>, which agree on values >= 0.
RECURSIVE FloorLog2(_)
FloorLog2(x) == IF x < 2 THEN 0 ELSE 1 + FloorLog2(x \div 2)

\* x >> n on uint32_t, n < 32
ShiftRight(x, n) == x \div (2 ^ n)

\* Mutant: the level count is taken from the smaller dimension.
CreateTextureMipLevelCount_Min(width, height) ==
    FloorLog2(Min(width, height)) + 1

\* CreateTexture (model textures)
CreateTextureMipLevelCount(width, height) ==
    FloorLog2(Max(width, height)) + 1

\* Mutant: environment textures are created with one level.
CreateEnvironmentTextureMipLevelCount_NoMips(width, height, mipmapping) == 1

\* CreateEnvironmentTexture
CreateEnvironmentTextureMipLevelCount(width, height, mipmapping) ==
    IF mipmapping THEN FloorLog2(Max(width, height)) + 1 ELSE 1

\* generate2DCompute, generateCubeCompute, generate2DRenderSRGB
GeneratorMipLevelCount(width, height) ==
    1 + FloorLog2(Max(width, height))

\* ----------------------------------------------------------------------
\* MipmapGenerator (backends/webgpu/MipmapGenerator.cpp)
\*
\* A recorded pass: the path that recorded it, the pipeline, the face loop
\* index (-1 outside a face loop), the value held by the face uniform buffer
\* bound for it (-1 when none is bound), the mip level and layer count of the
\* view bound as input and as output, the extent of the output level and the
\* workgroup counts (0 for a draw).

\* Mutant: every face buffer is written with the value 0.
MipInitUniformBuffers_AllZero == [face \in Faces |-> 0]

\* initUniformBuffers: the value written to _uniformBuffers[face]
MipInitUniformBuffers == [face \in Faces |-> face]

\* initBindGroupLayouts: the buffer _faceBindGroups[face] refers to
MipInitFaceBindGroups == [face \in Faces |-> face]

MipmapGeneratorNew ==
    [constructed |-> TRUE,
     uniformBuffers |-> MipInitUniformBuffers,
     faceBindGroups |-> MipInitFaceBindGroups]

\* Mutant: the input view is always level 0.
generate2DCompute_FromLevel0(width, height, pipeline) ==
    LET mipLevelCount == GeneratorMipLevelCount(width, height)
    IN  [i \in 1 .. (mipLevelCount - 1) |->
            LET levelWidth == Max(1, ShiftRight(width, i))
                levelHeight == Max(1, ShiftRight(height, i))
            IN  [path |-> "compute2D", pipeline |-> pipeline,
                 face |-> -1, faceUniform |-> -1,
                 inputLevel |-> 0, inputLayers |-> 1,
                 outputLevel |-> i, outputLayers |-> 1,
                 width |-> levelWidth, height |-> levelHeight,
                 workgroupCountX |-> (levelWidth + workgroupSize - 1) \div workgroupSize,
                 workgroupCountY |-> (levelHeight + workgroupSize - 1) \div workgroupSize]]

generate2DCompute(width, height, pipeline) ==
    LET mipLevelCount == GeneratorMipLevelCount(width, height)
    IN  [nextLevel \in 1 .. (mipLevelCount - 1) |->
            LET levelWidth == Max(1, ShiftRight(width, nextLevel))
                levelHeight == Max(1, ShiftRight(height, nextLevel))
            IN  [path |-> "compute2D", pipeline |-> pipeline,
                 face |-> -1, faceUniform |-> -1,
                 inputLevel |-> nextLevel - 1, inputLayers |-> 1,
                 outputLevel |-> nextLevel, outputLayers |-> 1,
                 width |-> levelWidth, height |-> levelHeight,
                 workgroupCountX |-> (levelWidth + workgroupSize - 1) \div workgroupSize,
                 workgroupCountY |-> (levelHeight + workgroupSize - 1) \div workgroupSize]]

\* Mutant: the workgroup counts are rounded down.
CubeLevelLoop_FloorCount(gen, face, width, height, mipLevelCount) ==
    [nextLevel \in 1 .. (mipLevelCount - 1) |->
        LET levelWidth == Max(1, ShiftRight(width, nextLevel))
            levelHeight == Max(1, ShiftRight(height, nextLevel))
        IN  [path |-> "computeCube", pipeline |-> "_pipelineCube",
             face |-> face,
             faceUniform |-> gen.uniformBuffers[gen.faceBindGroups[face]],
             inputLevel |-> nextLevel - 1, inputLayers |-> numFaces,
             outputLevel |-> nextLevel, outputLayers |-> numFaces,
             width |-> levelWidth, height |-> levelHeight,
             workgroupCountX |-> levelWidth \div workgroupSize,
             workgroupCountY |-> levelHeight \div workgroupSize]]

\* The inner loop of generateCubeCompute for one face.
CubeLevelLoop(gen, face, width, height, mipLevelCount) ==
    [nextLevel \in 1 .. (mipLevelCount - 1) |->
        LET levelWidth == Max(1, ShiftRight(width, nextLevel))
            levelHeight == Max(1, ShiftRight(height, nextLevel))
        IN  [path |-> "computeCube", pipeline |-> "_pipelineCube",
             face |-> face,
             faceUniform |-> gen.uniformBuffers[gen.faceBindGroups[face]],
             inputLevel |-> nextLevel - 1, inputLayers |-> numFaces,
             outputLevel |-> nextLevel, outputLayers |-> numFaces,
             width |-> levelWidth, height |-> levelHeight,
             workgroupCountX |-> (levelWidth + workgroupSize - 1) \div workgroupSize,
             workgroupCountY |-> (levelHeight + workgroupSize - 1) \div workgroupSize]]

RECURSIVE CubeFaceLoop(_, _, _, _, _)
CubeFaceLoop(gen, face, width, height, mipLevelCount) ==
    IF face < numFaces
    THEN CubeLevelLoop(gen, face, width, height, mipLevelCount)
            \o CubeFaceLoop(gen, face + 1, width, height, mipLevelCount)
    ELSE <<>>

\* Mutant: the levels of a face are recorded from the smallest to the largest.
generateCubeCompute_Descending(gen, width, height) ==
    LET mipLevelCount == GeneratorMipLevelCount(width, height)
        ascending == CubeFaceLoop(gen, 0, width, height, mipLevelCount)
        perFace == mipLevelCount - 1
    IN  [k \in 1 .. Len(ascending) |->
            ascending[((k - 1) \div perFace) * perFace + (perFace - ((k - 1) % perFace))]]

generateCubeCompute(gen, width, height) ==
    CubeFaceLoop(gen, 0, width, height, GeneratorMipLevelCount(width, height))

generate2DRenderSRGB(width, height) ==
    LET mipLevelCount == GeneratorMipLevelCount(width, height)
    IN  [nextLevel \in 1 .. (mipLevelCount - 1) |->
            [path |-> "renderSRGB", pipeline |-> "_renderPipelineSRGB2D",
             face |-> -1, faceUniform |-> -1,
             inputLevel |-> nextLevel - 1, inputLayers |-> 1,
             outputLevel |-> nextLevel, outputLayers |-> 1,
             width |-> Max(1, ShiftRight(width, nextLevel)),
             height |-> Max(1, ShiftRight(height, nextLevel)),
             workgroupCountX |-> 0, workgroupCountY |-> 0]]

MipKinds == {"LinearUNorm2D", "Normal2D", "Float16Cube", "SRGB2D"}

\* Mutant: sRGB textures take the 2D compute path.
GenerateMipmaps_SrgbCompute(gen, width, height, kind) ==
    CASE kind = "LinearUNorm2D" -> generate2DCompute(width, height, "_pipeline2D")
      [] kind = "Normal2D" -> generate2DCompute(width, height, "_pipelineNormal2D")
      [] kind = "Float16Cube" -> generateCubeCompute(gen, width, height)
      [] kind = "SRGB2D" -> generate2DCompute(width, height, "_pipeline2D")
      [] OTHER -> generate2DCompute(width, height, "_pipeline2D")

GenerateMipmaps(gen, width, height, kind) ==
    CASE kind = "LinearUNorm2D" -> generate2DCompute(width, height, "_pipeline2D")
      [] kind = "Normal2D" -> generate2DCompute(width, height, "_pipelineNormal2D")
      [] kind = "Float16Cube" -> generateCubeCompute(gen, width, height)
      [] kind = "SRGB2D" -> generate2DRenderSRGB(width, height)
      [] OTHER -> generate2DCompute(width, height, "_pipeline2D")

\* CreateTexture: the kind it hands to GenerateMipmaps, and whether the texture
\* it hands over was created with StorageBinding usage.
CreateTextureMipKind(kind) ==
    IF kind = "SRGB2D" THEN kind
    ELSE IF kind = "Normal2D" THEN "Normal2D" ELSE "LinearUNorm2D"

CreateTextureStorageBinding(kind) == kind # "SRGB2D"

\* The per-level copies CreateTexture records from the intermediate texture
\* to the final one.
CreateTextureCopy(width, height, mipLevelCount) ==
    [k \in 1 .. mipLevelCount |->
        [cmd |-> "CopyTextureToTexture", srcLevel |-> k - 1, dstLevel |-> k - 1,
         width |-> Max(ShiftRight(width, k - 1), 1),
         height |-> Max(ShiftRight(height, k - 1), 1)]]

\* Mutant: the copy is submitted before the mip levels are generated.
CreateTextureQueue_CopyFirst(gen, width, height, kind) ==
    LET mipLevelCount == CreateTextureMipLevelCount(width, height)
        mips == GenerateMipmaps(gen, width, height, CreateTextureMipKind(kind))
    IN  IF kind = "SRGB2D"
        THEN << [op |-> "WriteTexture", target |-> "final", commands |-> <<>>],
                [op |-> "SubmitMips", target |-> "final", commands |-> mips] >>
        ELSE << [op |-> "WriteTexture", target |-> "intermediate", commands |-> <<>>],
                [op |-> "SubmitCopy", target |-> "final",
                 commands |-> CreateTextureCopy(width, height, mipLevelCount)],
                [op |-> "SubmitMips", target |-> "intermediate", commands |-> mips] >>

\* What CreateTexture hands to the queue, in order: the upload of level 0,
\* the command buffer of GenerateMipmaps, and on the compute path the command
\* buffer with the copies.
CreateTextureQueue(gen, width, height, kind) ==
    LET mipLevelCount == CreateTextureMipLevelCount(width, height)
        mips == GenerateMipmaps(gen, width, height, CreateTextureMipKind(kind))
    IN  IF kind = "SRGB2D"
        THEN << [op |-> "WriteTexture", target |-> "final", commands |-> <<>>],
                [op |-> "SubmitMips", target |-> "final", commands |-> mips] >>
        ELSE << [op |-> "WriteTexture", target |-> "intermediate", commands |-> <<>>],
                [op |-> "SubmitMips", target |-> "intermediate", commands |-> mips],
                [op |-> "SubmitCopy", target |-> "final",
                 commands |-> CreateTextureCopy(width, height, mipLevelCount)] >>

\* ----------------------------------------------------------------------
\* PanoramaToCubemapConverter (backends/webgpu/PanoramaToCubemapConverter.cpp)

\* InitUniformBuffers: the value written to _perFaceUniformBuffers[face]
ConverterInitUniformBuffers == [face \in Faces |-> face]

\* InitBindGroups: the buffer _perFaceBindGroups[face] refers to
ConverterInitBindGroups == [face \in Faces |-> face]

PanoramaToCubemapConverterNew ==
    [constructed |-> TRUE,
     uniformBuffers |-> ConverterInitUniformBuffers,
     faceBindGroups |-> ConverterInitBindGroups]

\* One dispatch per face; the output view is level 0 of the cubemap, six layers.
UploadAndConvert(conv, cubeWidth, cubeHeight) ==
    [k \in 1 .. numFaces |->
        LET face == k - 1
        IN  [path |-> "convert", pipeline |-> "_pipelineConvert",
             face |-> face,
             faceUniform |-> conv.uniformBuffers[conv.faceBindGroups[face]],
             inputLevel |-> 0, inputLayers |-> 1,
             outputLevel |-> 0, outputLayers |-> numFaces,
             width |-> cubeWidth, height |-> cubeHeight,
             workgroupCountX |-> (cubeWidth + workgroupSize - 1) \div workgroupSize,
             workgroupCountY |-> (cubeHeight + workgroupSize - 1) \div workgroupSize]]

\* ----------------------------------------------------------------------
\* EnvironmentPreprocessor: specular prefiltering.  The class is declared in
\* EnvironmentPreprocessor.h; its dispatch loop is described by the
\* specification: one dispatch per (mip, face), the roughness a function of
\* the mip index that is 0 at mip 0 and 1 at the last mip.

\* The roughness bound for a mip, as the fraction num / den.
SpecularRoughness(mip, mipLevelCount) ==
    [num |-> mip, den |-> Max(1, mipLevelCount - 1)]

SpecularMipPasses(mip, mipLevelCount) ==
    [k \in 1 .. numFaces |->
        [path |-> "prefilterSpecular", pipeline |-> "_pipelinePrefilteredSpecular",
         face |-> k - 1, faceUniform |-> k - 1,
         outputLevel |-> mip, outputLayers |-> numFaces,
         roughness |-> SpecularRoughness(mip, mipLevelCount)]]

RECURSIVE SpecularMipLoop(_, _)
SpecularMipLoop(mip, mipLevelCount) ==
    IF mip < mipLevelCount
    THEN SpecularMipPasses(mip, mipLevelCount) \o SpecularMipLoop(mip + 1, mipLevelCount)
    ELSE <<>>

GenerateMapsSpecular(mipLevelCount) == SpecularMipLoop(0, mipLevelCount)

\* The commands UploadAndConvert records in its compute pass, in order.  Bind
\* group 0 holds the sampler, the panorama view and the output view of the
\* destination cubemap.
ConvertBindGroup0 ==
    [sampler |-> "_sampler",
     panoramaView |-> [baseArrayLayer |-> 0, arrayLayerCount |-> 1],
     outputView |-> [baseMipLevel |-> 0, mipLevelCount |-> 1,
                     baseArrayLayer |-> 0, arrayLayerCount |-> 6]]

ConvertFaceCommands(conv, face, cubeWidth, cubeHeight) ==
    << [cmd |-> "SetBindGroup", group |-> 1, face |-> face,
        faceUniform |-> conv.uniformBuffers[conv.faceBindGroups[face]]],
       [cmd |-> "DispatchWorkgroups", face |-> face,
        x |-> (cubeWidth + workgroupSize - 1) \div workgroupSize,
        y |-> (cubeHeight + workgroupSize - 1) \div workgroupSize, z |-> 1] >>

RECURSIVE ConvertFaceLoop(_, _, _, _)
ConvertFaceLoop(conv, face, cubeWidth, cubeHeight) ==
    IF face < numFaces
    THEN ConvertFaceCommands(conv, face, cubeWidth, cubeHeight)
            \o ConvertFaceLoop(conv, face + 1, cubeWidth, cubeHeight)
    ELSE <<>>

\* Mutant: bind group 0 is set again inside the face loop.
UploadAndConvertCommands_RebindPerFace(conv, cubeWidth, cubeHeight) ==
    LET loop == ConvertFaceLoop(conv, 0, cubeWidth, cubeHeight)
        set0 == [cmd |-> "SetBindGroup", group |-> 0, bindGroup |-> ConvertBindGroup0]
    IN  << [cmd |-> "SetPipeline", pipeline |-> "_pipelineConvert"] >>
        \o [k \in 1 .. (3 * numFaces) |->
               IF k % 3 = 1 THEN set0 ELSE loop[2 * ((k - 1) \div 3) + ((k - 1) % 3)]]

UploadAndConvertCommands(conv, cubeWidth, cubeHeight) ==
    << [cmd |-> "SetPipeline", pipeline |-> "_pipelineConvert"],
       [cmd |-> "SetBindGroup", group |-> 0, bindGroup |-> ConvertBindGroup0] >>
    \o ConvertFaceLoop(conv, 0, cubeWidth, cubeHeight)

\* ----------------------------------------------------------------------
\* Renderer lifetime (WebgpuRenderer::Shutdown, GltfViewerApp::SwitchToNextBackend)

\* Mutant: the resources are released without waiting for the queue.
Shutdown_SkipsWait(r, submitted) ==
    IF r.isShutdown
    THEN [r |-> r, inFlight |-> submitted, waited |-> FALSE]
    ELSE [r |-> [NoRenderer EXCEPT !.backend = r.backend, !.isShutdown = TRUE],
          inFlight |-> submitted,
          waited |-> FALSE]

\* WebgpuRenderer::Shutdown; submitted is the work the queue has not finished.
Shutdown(r, submitted) ==
    IF r.isShutdown
    THEN [r |-> r, inFlight |-> submitted, waited |-> FALSE]
    ELSE [r |-> [NoRenderer EXCEPT !.backend = r.backend, !.isShutdown = TRUE],
          inFlight |-> IF r.device THEN <<>> ELSE submitted,
          waited |-> r.device]

\* IRenderer::Shutdown of the renderer the application holds.
RendererShutdown(r, submitted) ==
    IF r.backend = "webgpu" THEN Shutdown(r, submitted)
    ELSE IF ~r.device THEN [r |-> r, inFlight |-> submitted, waited |-> FALSE]
    ELSE [r |-> r, inFlight |-> <<>>, waited |-> TRUE]

\* IRenderer::Initialize of a renderer a factory returned.
RendererInitialize(backend, env, model, gen) ==
    IF backend = "webgpu"
    THEN Initialize(backend, env, model, gen, 0, FALSE).r
    ELSE [NoRenderer EXCEPT !.backend = backend, !.device = TRUE,
                            !.depthTexture = "initial", !.pipelines = "startup"]

\* The renderers that hold a surface of the window.
InitializedOf(r) == IF r.device THEN {r.backend} ELSE {}

\* One traced step of a handler: the IRenderer or registry call, its receiver,
\* and the renderers initialized for the window once it has returned.
TraceStep(step, backend, initialized) ==
    [step |-> step, backend |-> backend, initialized |-> initialized]

\* One traced Shutdown call.
ShutdownRecord(before, submitted, sh) ==
    [before |-> before, pendingBefore |-> submitted, after |-> sh.r,
     pendingAfter |-> sh.inFlight, waited |-> sh.waited]

NextBackendOf(backends, backendName) ==
    LET found == {i \in 1 .. Len(backends) : backends[i] = backendName}
    IN  IF found = {} THEN backends[1]
        ELSE LET i == CHOOSE j \in found : TRUE
             IN  IF i = Len(backends) THEN backends[1] ELSE backends[i + 1]

\* _renderer->Shutdown(); _renderer.reset(): the destructor calls Shutdown again.
ReleaseRenderer(a) ==
    IF a.renderer.backend = "none" THEN a
    ELSE LET first == RendererShutdown(a.renderer, a.inFlight)
             second == RendererShutdown(first.r, first.inFlight)
         IN  [a EXCEPT
                !.renderer = NoRenderer,
                !.inFlight = second.inFlight,
                !.shutdowns = a.shutdowns
                    \o << ShutdownRecord(a.renderer, a.inFlight, first),
                          ShutdownRecord(first.r, first.inFlight, second) >>,
                !.trace = a.trace
                    \o << TraceStep("Shutdown", a.renderer.backend,
                                    (a.initialized \ {a.renderer.backend})
                                        \cup InitializedOf(first.r)),
                          TraceStep("Destroy", a.renderer.backend,
                                    a.initialized \ {a.renderer.backend}) >>,
                !.initialized = a.initialized \ {a.renderer.backend}]

\* _renderer = Create(name); Initialize unless it is null.
CreateRenderer(a, factories, name, env, model, gen) ==
    LET made == Create(factories, name)
        created == [a EXCEPT
                      !.create = [requested |-> TRUE, backend |-> made.backend,
                                  factoryCalls |-> made.factoryCalls],
                      !.renderer = [NoRenderer EXCEPT !.backend = made.backend],
                      !.trace = Append(a.trace,
                                       TraceStep("Create", made.backend, a.initialized))]
        r == RendererInitialize(made.backend, env, model, gen)
    IN  IF made.backend = "none" THEN created
        ELSE [created EXCEPT
                !.renderer = r,
                !.initialized = a.initialized \cup InitializedOf(r),
                !.trace = Append(created.trace,
                                 TraceStep("Initialize", made.backend,
                                           a.initialized \cup InitializedOf(r)))]

\* Mutant: the next renderer is created and initialized while the current one
\* is still alive.
SwitchToNextBackend_CreateFirst(a, factories, env, model, gen) ==
    LET backends == GetAvailableBackends(factories)
        nextBackend == NextBackendOf(backends, a.backendName)
        made == CreateRenderer([a EXCEPT !.backendName = nextBackend],
                               factories, nextBackend, env, model, gen)
        released == ReleaseRenderer([made EXCEPT !.renderer = a.renderer])
    IN  IF Len(backends) <= 1 THEN a
        ELSE [released EXCEPT !.renderer = made.renderer,
                              !.initialized = InitializedOf(made.renderer)]

SwitchToNextBackend(a, factories, env, model, gen) ==
    LET backends == GetAvailableBackends(factories)
        nextBackend == NextBackendOf(backends, a.backendName)
        released == ReleaseRenderer(a)
    IN  IF Len(backends) <= 1 THEN a
        ELSE CreateRenderer([released EXCEPT !.backendName = nextBackend],
                            factories, nextBackend, env, model, gen)

\* ----------------------------------------------------------------------
\* VulkanRenderer (backends/vulkan/VulkanRenderer.cpp)
\*
\* A device is the renderer's objects (r) and the submissions the graphics
\* queue has accepted and not yet finished (q), oldest first.

kMaxFramesInFlight == 2
Slots == 0 .. (kMaxFramesInFlight - 1)
SwapchainImageCounts == {2, 3}
AcquireResults == {"eSuccess", "eSuboptimalKHR", "eErrorOutOfDateKHR", "OutOfDateKHRError",
                   "eNotReady"}
PresentResults == {"eSuccess", "OutOfDateKHRError"}

NoVulkanRenderer ==
    [core |-> FALSE,
     swapchainImages |-> 0,
     placeholderLayout |-> "none",
     descriptorSets |-> [written |-> FALSE, imageLayout |-> "none", layoutAtWrite |-> "none"],
     commandBuffers |-> [s \in Slots |-> "none"],
     inFlightFences |-> [s \in Slots |-> "none"],
     renderFinishedSemaphores |-> 0,
     currentFrame |-> 0,
     frames |-> 0]

\* image: the swapchain image a frame renders to and presents
TransitionSubmission == [kind |-> "transition", slot |-> 0, image |-> 0]
FrameSubmission(slot, image) == [kind |-> "frame", slot |-> slot, image |-> image]

\* The queue finishes a submission: the barrier has moved the cubemap to its
\* new layout, or the frame's fence is signalled and its one-time command
\* buffer is no longer in use.
QueueFinish(r, sub) ==
    IF sub.kind = "transition"
    THEN [r EXCEPT !.placeholderLayout = "eShaderReadOnlyOptimal"]
    ELSE [r EXCEPT !.inFlightFences[sub.slot] = "signaled",
                   !.commandBuffers[sub.slot] = "invalid"]

RECURSIVE DeviceWaitIdle(_)
\* device.waitIdle(): returns when the queue has finished every submission.
DeviceWaitIdle(d) ==
    IF d.q = <<>> THEN d
    ELSE DeviceWaitIdle([r |-> QueueFinish(d.r, Head(d.q)), q |-> Tail(d.q)])

\* Mutant: the transition is submitted and the function returns without waiting.
CreatePlaceholderCubemap_NoWait(d) ==
    [r |-> [d.r EXCEPT !.placeholderLayout = "eUndefined"],
     q |-> Append(d.q, TransitionSubmission)]

CreatePlaceholderCubemap(d) ==
    LET created == [d.r EXCEPT !.placeholderLayout = "eUndefined"]
        submitted == [r |-> created, q |-> Append(d.q, TransitionSubmission)]
    IN  DeviceWaitIdle(submitted)

\* layoutAtWrite: the layout the image is in when updateDescriptorSets runs.
CreateDescriptorSets(d) ==
    [d EXCEPT !.r.descriptorSets = [written |-> TRUE,
                                    imageLayout |-> "eShaderReadOnlyOptimal",
                                    layoutAtWrite |-> d.r.placeholderLayout]]

CreateCommandBuffers(d) ==
    [d EXCEPT !.r.commandBuffers = [s \in Slots |-> "initial"]]

CreateSyncObjects(d) ==
    [d EXCEPT !.r.inFlightFences = [s \in Slots |-> "signaled"],
              !.r.renderFinishedSemaphores = d.r.swapchainImages]

VulkanInitialize(d, imageCount) ==
    LET core == [d EXCEPT !.r.core = TRUE, !.r.swapchainImages = imageCount]
    IN  CreateSyncObjects(CreateCommandBuffers(CreateDescriptorSets(
            CreatePlaceholderCubemap(core))))

\* Resize, with UpdateSwapchainSyncObjects
VulkanResize(d, imageCount) ==
    IF d.r.core
    THEN LET idle == DeviceWaitIdle(d)
         IN  [idle EXCEPT !.r.swapchainImages = imageCount,
                          !.r.renderFinishedSemaphores = imageCount]
    ELSE d

VulkanShutdown(d) == IF ~d.r.core THEN d ELSE DeviceWaitIdle(d)

\* Mutant: Render does not wait for the slot's fence.
RenderFenceWaitDone_NoWait(r) == TRUE

\* waitForFences(_inFlightFences[_currentFrame], VK_TRUE, UINT64_MAX) has returned eSuccess
RenderFenceWaitDone(r) == r.inFlightFences[r.currentFrame] = "signaled"

\* Mutant: the fence is reset before the swapchain image is acquired.
RenderAcquire_ResetsFence(d, acquire, imageCount) ==
    LET reset == [d EXCEPT !.r.inFlightFences[d.r.currentFrame] = "unsignaled"]
    IN  IF acquire \in {"eErrorOutOfDateKHR", "OutOfDateKHRError"}
        THEN [d |-> VulkanResize(reset, imageCount), proceed |-> FALSE]
        ELSE IF acquire \notin {"eSuccess", "eSuboptimalKHR"}
        THEN [d |-> reset, proceed |-> FALSE]
        ELSE [d |-> reset, proceed |-> TRUE]

\* Render, from acquireNextImageKHR to the early returns that follow it.
RenderAcquire(d, acquire, imageCount) ==
    IF acquire \in {"eErrorOutOfDateKHR", "OutOfDateKHRError"}
    THEN [d |-> VulkanResize(d, imageCount), proceed |-> FALSE]
    ELSE IF acquire \notin {"eSuccess", "eSuboptimalKHR"}
    THEN [d |-> d, proceed |-> FALSE]
    ELSE [d |-> d, proceed |-> TRUE]

\* Render, from resetFences to the end.
RenderSubmit(d, imageIndex, present, imageCount) ==
    LET cur == d.r.currentFrame
        recorded == [d.r EXCEPT !.inFlightFences[cur] = "unsignaled",
                                !.commandBuffers[cur] = "pending"]
        submitted == [r |-> recorded, q |-> Append(d.q, FrameSubmission(cur, imageIndex))]
        presented == IF present = "OutOfDateKHRError"
                     THEN VulkanResize(submitted, imageCount)
                     ELSE submitted
    IN  [presented EXCEPT !.r.currentFrame = (cur + 1) % kMaxFramesInFlight,
                          !.r.frames = d.r.frames + 1]

\* The command buffer of the current slot belongs to a submission the queue
\* has not finished.
CommandBufferInUse(d) ==
    \E i \in 1 .. Len(d.q) : d.q[i].kind = "frame" /\ d.q[i].slot = d.r.currentFrame

VulkanRender(d, acquire, imageIndex, present, imageCount) ==
    LET a == RenderAcquire(d, acquire, imageCount)
    IN  IF ~a.proceed
        THEN [d |-> a.d,
              event |-> [op |-> "Render", slot |-> d.r.currentFrame, submitted |-> FALSE,
                         inUseAtReset |-> FALSE, layoutAtSubmit |-> "none"]]
        ELSE [d |-> RenderSubmit(a.d, imageIndex, present, imageCount),
              event |-> [op |-> "Render", slot |-> d.r.currentFrame, submitted |-> TRUE,
                         inUseAtReset |-> CommandBufferInUse(a.d),
                         layoutAtSubmit |-> a.d.r.placeholderLayout]]

\* ----------------------------------------------------------------------
\* The key callback (application/AppEntryMain.cpp)

GLFW_KEY_LAST == 348
\* GLFW_KEY_UNKNOWN, GLFW_KEY_A, GLFW_KEY_B, GLFW_KEY_R and GLFW_KEY_LAST itself
KeyInputs == {-1, 65, 66, 82, GLFW_KEY_LAST}
KeyActions == {"GLFW_PRESS", "GLFW_RELEASE", "GLFW_REPEAT"}
\* The elements of keyState[] the inputs can index.
TrackedKeys == {k \in KeyInputs : k >= 0 /\ k < GLFW_KEY_LAST}

\* Mutant: every GLFW_PRESS is passed on, whatever keyState holds.
KeyCallback_IgnoresKeyState(state, key, action) ==
    IF key >= 0 /\ key < GLFW_KEY_LAST
    THEN [keyState |-> IF action = "GLFW_PRESS" THEN [state EXCEPT ![key] = TRUE]
                       ELSE IF action = "GLFW_RELEASE" THEN [state EXCEPT ![key] = FALSE]
                       ELSE state,
          invoked |-> action = "GLFW_PRESS"]
    ELSE [keyState |-> state, invoked |-> FALSE]

\* invoked: the callback calls app->OnKeyPressed(key, mods).
KeyCallback(state, key, action) ==
    IF key >= 0 /\ key < GLFW_KEY_LAST
    THEN LET keyPressed == action = "GLFW_PRESS" /\ ~state[key]
         IN  [keyState |-> IF action = "GLFW_PRESS" THEN [state EXCEPT ![key] = TRUE]
                           ELSE IF action = "GLFW_RELEASE" THEN [state EXCEPT ![key] = FALSE]
                           ELSE state,
              invoked |-> keyPressed]
    ELSE [keyState |-> state, invoked |-> FALSE]

\* ----------------------------------------------------------------------
\* State

VARIABLES
    appPhase,       \* Application::Run: "constructed", "running" or "quit"
    exited,         \* std::exit was called by the uncaptured-error callback
    environment,    \* GltfViewerApp::_environment
    modelName,      \* GltfViewerApp::_model (the file it was loaded from)
    renderer,       \* GltfViewerApp::_renderer (NoRenderer when null)
    loads,          \* environment loads started so far (names the objects created)
    loadLog,        \* what the latest environment load submitted, in order
    inFlight,       \* frames submitted to the queue and not yet finished by the GPU
    pendingError,   \* a device error whose callback has not run yet
    lastEvent,      \* the latest handler that ran, with the state it started from
    mipGen,         \* a MipmapGenerator object
    converter,      \* a PanoramaToCubemapConverter object
    texture,        \* the texture the helpers were last applied to
    passes,         \* the passes recorded by the latest helper call
    convertPass,    \* the compute pass UploadAndConvert recorded for the texture
    calls,          \* the latest operation on the texture and the number of helper calls
    submitted,      \* what CreateTexture handed to the queue for the texture, in order
    vk,             \* the VulkanRenderer object
    vkQueue,        \* submissions the Vulkan graphics queue has not finished, oldest first
    vkEvent,        \* the latest call into the VulkanRenderer and what it observed
    factories,      \* BackendRegistry::_factories (the registered names)
    backendName,    \* GltfViewerApp::_backendName
    bkEvent,        \* the latest handler of SpecBackend and the calls it made
    keyState,       \* the key callback's static keyState[]
    keySinceInvoked, \* per key: what has arrived since OnKeyPressed was last invoked for it
    keyEvent,       \* the latest key event and whether OnKeyPressed was invoked
    cubeSize        \* the latest FloorPow2 call and the cubemap face size it gave

appVars == <<appPhase, exited, environment, modelName, renderer, loads, loadLog,
             inFlight, pendingError, lastEvent>>
mipVars == <<mipGen, converter, texture, passes, convertPass, calls, submitted>>
vkVars == <<vk, vkQueue, vkEvent>>
bkVars == <<factories, backendName, bkEvent>>
keyVars == <<keyState, keySinceInvoked, keyEvent>>
otherVars == <<vkVars, bkVars, keyVars, cubeSize>>
vars == <<appPhase, exited, environment, modelName, renderer, loads, loadLog,
          inFlight, pendingError, lastEvent, mipGen, converter, texture, passes, convertPass,
          calls, submitted, vk, vkQueue, vkEvent, factories, backendName, bkEvent, keyState,
          keySinceInvoked, keyEvent, cubeSize>>

NoEvent ==
    [op |-> "none", filename |-> EmptyName, dec |-> NoImage, loadOk |-> FALSE,
     failAt |-> 0, spontaneous |-> FALSE,
     envBefore |-> NewEnvironment, rendererBefore |-> NoRenderer,
     loadsBefore |-> 0]

Event(op, filename, dec, loadOk, failAt, spontaneous) ==
    [op |-> op, filename |-> filename, dec |-> dec, loadOk |-> loadOk,
     failAt |-> failAt, spontaneous |-> spontaneous,
     envBefore |-> environment, rendererBefore |-> renderer,
     loadsBefore |-> loads]

NoHelper == [constructed |-> FALSE,
             uniformBuffers |-> [f \in Faces |-> 0],
             faceBindGroups |-> [f \in Faces |-> 0]]
NoTexture == [kind |-> "none", width |-> 0, height |-> 0, layers |-> 0, mipLevelCount |-> 0,
              storageBinding |-> FALSE]
NoCalls == [last |-> "none", count |-> 0]

AppInit ==
    /\ appPhase = "constructed"
    /\ exited = FALSE
    /\ environment = NewEnvironment
    /\ modelName = EmptyName
    /\ renderer = NoRenderer
    /\ loads = 0
    /\ loadLog = <<>>
    /\ inFlight = <<>>
    /\ pendingError = FALSE
    /\ lastEvent = NoEvent

MipIdle ==
    /\ mipGen = NoHelper
    /\ converter = NoHelper
    /\ texture = NoTexture
    /\ passes = <<>>
    /\ convertPass = <<>>
    /\ calls = NoCalls
    /\ submitted = <<>>

NoVkEvent == [op |-> "none", slot |-> 0, submitted |-> FALSE, inUseAtReset |-> FALSE,
              layoutAtSubmit |-> "none"]

VkIdle ==
    /\ vk = NoVulkanRenderer
    /\ vkQueue = <<>>
    /\ vkEvent = NoVkEvent

NoCreate == [requested |-> FALSE, backend |-> "none", factoryCalls |-> 0]
NoBkEvent == [op |-> "none", rendererBefore |-> NoRenderer, trace |-> <<>>, shutdowns |-> <<>>,
              create |-> NoCreate]

BkIdle ==
    /\ factories = {}
    /\ backendName = ""
    /\ bkEvent = NoBkEvent

NoKeyEvent == [key |-> -1, action |-> "none", invoked |-> FALSE, sinceInvoked |-> "never"]

KeyIdle ==
    /\ keyState = [k \in TrackedKeys |-> FALSE]
    /\ keySinceInvoked = [k \in TrackedKeys |-> "never"]
    /\ keyEvent = NoKeyEvent

NoCubeSize == [called |-> FALSE, x |-> 0, result |-> 0, iterations |-> 0, faceSize |-> 0]

Init == AppInit /\ MipIdle /\ VkIdle /\ BkIdle /\ KeyIdle /\ cubeSize = NoCubeSize

\* ----------------------------------------------------------------------
\* The application (samples/gltf_viewer/GLTFViewerApp.cpp)

DamagedHelmetGlb == <<"m", ".", "g", "l", "b">>

OnInit ==
    /\ appPhase = "constructed"
    /\ ~exited
    /\ \E dec \in DecodeResults, arg \in BackendArgs, failAt \in FailPoints,
          spontaneous \in BOOLEAN :
         LET loaded == EnvironmentLoad(environment, HelipadHdr, dec)
             backend == BackendRegistryCreate(arg)
             init == Initialize(backend, loaded.env, DamagedHelmetGlb, loads + 1,
                                failAt, spontaneous)
         IN  /\ (failAt = 0 => ~spontaneous)
             /\ (backend = "none" => failAt = 0)
             /\ environment' = loaded.env
             /\ modelName' = DamagedHelmetGlb
             /\ lastEvent' = Event("OnInit", HelipadHdr, dec, loaded.ok, failAt, spontaneous)
             /\ IF backend = "none"
                THEN /\ appPhase' = "quit"
                     /\ UNCHANGED <<exited, renderer, loads, loadLog, pendingError>>
                ELSE /\ appPhase' = "running"
                     /\ renderer' = init.r
                     /\ loads' = loads + 1
                     /\ loadLog' = init.log
                     /\ exited' = init.exited
                     /\ pendingError' = init.pendingError
    /\ UNCHANGED <<inFlight>>
    /\ UNCHANGED <<mipVars, otherVars>>

\* OnFrame -> WebgpuRenderer::Render; acquired: GetCurrentTexture gave a texture.
OnFrame ==
    /\ appPhase = "running"
    /\ ~exited
    /\ renderer.backend # "none"
    /\ \E acquired \in BOOLEAN :
         /\ lastEvent' = Event(IF acquired THEN "Render" ELSE "RenderNoSurface",
                               EmptyName, NoImage, FALSE, 0, FALSE)
         /\ IF acquired
            THEN /\ Len(inFlight) < MaxInFlight
                 /\ inFlight' = Append(inFlight, FrameOf(renderer))
                 \* _instance.ProcessEvents() runs the deferred error callback
                 /\ exited' = pendingError
                 /\ pendingError' = FALSE
            ELSE UNCHANGED <<inFlight, exited, pendingError>>
    /\ UNCHANGED <<appPhase, environment, modelName, renderer, loads, loadLog>>
    /\ UNCHANGED <<mipVars, otherVars>>

\* The GPU finishes the oldest submitted frame.
GpuComplete ==
    /\ ~exited
    /\ inFlight # <<>>
    /\ inFlight' = Tail(inFlight)
    /\ UNCHANGED <<appPhase, exited, environment, modelName, renderer, loads, loadLog,
                   pendingError, lastEvent>>
    /\ UNCHANGED <<mipVars, otherVars>>

DropModel(filename) ==
    /\ modelName' = filename
    /\ renderer' = IF renderer.backend # "none"
                   THEN UpdateModel(renderer, filename)
                   ELSE renderer
    /\ lastEvent' = Event("DropModel", filename, NoImage, TRUE, 0, FALSE)
    /\ UNCHANGED <<environment, loads, loadLog, exited, pendingError>>

\* The result of Environment::Load is not looked at.
DropEnvironment(filename) ==
    \E dec \in DecodeResults, failAt \in FailPoints, spontaneous \in BOOLEAN :
        LET loaded == EnvironmentLoad(environment, filename, dec)
            u == UpdateEnvironment(renderer, loaded.env, loads + 1, failAt, spontaneous)
        IN  /\ (failAt = 0 => ~spontaneous)
            /\ environment' = loaded.env
            /\ lastEvent' = Event("DropEnvironment", filename, dec, loaded.ok,
                                  failAt, spontaneous)
            /\ IF renderer.backend # "none"
               THEN /\ loads < MaxLoads
                    /\ renderer' = u.r
                    /\ loads' = loads + 1
                    /\ loadLog' = u.log
                    /\ exited' = u.exited
                    /\ pendingError' = (pendingError \/ u.pendingError)
               ELSE /\ failAt = 0
                    /\ UNCHANGED <<renderer, loads, loadLog, exited, pendingError>>
            /\ UNCHANGED modelName

DropUnsupported(filename) ==
    /\ lastEvent' = Event("DropUnsupported", filename, NoImage, FALSE, 0, FALSE)
    /\ UNCHANGED <<environment, modelName, renderer, loads, loadLog, exited, pendingError>>

OnFileDropped ==
    /\ appPhase = "running"
    /\ ~exited
    /\ \E filename \in FileNames :
         LET extension == Extension(filename)
         IN  IF extension = <<"g", "l", "b">> \/ extension = <<"g", "l", "t", "f">>
             THEN DropModel(filename)
             ELSE IF extension = <<"h", "d", "r">>
             THEN DropEnvironment(filename)
             ELSE DropUnsupported(filename)
    /\ UNCHANGED <<appPhase, inFlight>>
    /\ UNCHANGED <<mipVars, otherVars>>

OnResize ==
    /\ appPhase = "running"
    /\ ~exited
    /\ \E size \in FramebufferSizes :
         /\ renderer' = IF renderer.backend # "none" THEN Resize(renderer, size) ELSE renderer
         /\ lastEvent' = Event("Resize", EmptyName, NoImage, FALSE, 0, FALSE)
    /\ UNCHANGED <<appPhase, exited, environment, modelName, loads, loadLog, inFlight,
                   pendingError>>
    /\ UNCHANGED <<mipVars, otherVars>>

\* OnKeyPressed with GLFW_KEY_R.  A shader file that cannot be read gives an
\* empty module and a device error when the pipeline is created.
OnKeyReloadShaders ==
    /\ appPhase = "running"
    /\ ~exited
    /\ renderer.backend # "none"
    /\ \E source \in ShaderSources, spontaneous \in BOOLEAN :
         /\ (source # "missing" => ~spontaneous)
         /\ renderer' = ReloadShaders(renderer, source)
         /\ lastEvent' = Event("ReloadShaders", EmptyName, NoImage, FALSE, 0, spontaneous)
         /\ exited' = (source = "missing" /\ spontaneous)
         /\ pendingError' = (pendingError \/ (source = "missing" /\ ~spontaneous))
    /\ UNCHANGED <<appPhase, environment, modelName, loads, loadLog, inFlight>>
    /\ UNCHANGED <<mipVars, otherVars>>

Next ==
    \/ OnInit
    \/ OnFrame
    \/ GpuComplete
    \/ OnFileDropped
    \/ OnResize
    \/ OnKeyReloadShaders

Spec == Init /\ [][Next]_vars

\* ----------------------------------------------------------------------
\* The Environment class on its own

RotationAngles == {0, 1}

\* Decoder outcomes around the width cap, besides the ones above.
EnvDecodeResults ==
    DecodeResults \cup { [ok |-> TRUE, w |-> 4, h |-> 2],
                         [ok |-> TRUE, w |-> 4096, h |-> 2048],
                         [ok |-> TRUE, w |-> 4098, h |-> 2049],
                         [ok |-> TRUE, w |-> 4098, h |-> 2048] }

EnvLoad ==
    /\ \E filename \in FileNames, dec \in EnvDecodeResults :
         LET loaded == EnvironmentLoad(environment, filename, dec)
         IN  /\ environment' = loaded.env
             /\ lastEvent' = Event("Load", filename, dec, loaded.ok, 0, FALSE)
    /\ UNCHANGED <<appPhase, exited, modelName, renderer, loads, loadLog, inFlight,
                   pendingError>>
    /\ UNCHANGED <<mipVars, otherVars>>

EnvUpdateRotation ==
    /\ \E angle \in RotationAngles :
         /\ environment' = EnvironmentUpdateRotation(environment, angle)
         /\ lastEvent' = Event("UpdateRotation", EmptyName, NoImage, FALSE, 0, FALSE)
    /\ UNCHANGED <<appPhase, exited, modelName, renderer, loads, loadLog, inFlight,
                   pendingError>>
    /\ UNCHANGED <<mipVars, otherVars>>

NextEnv ==
    \/ EnvLoad
    \/ EnvUpdateRotation

SpecEnv == Init /\ [][NextEnv]_vars

\* ----------------------------------------------------------------------
\* The helper objects on their own

RepresentativeDims == {100, 513, 1024, 2048, 4096}
Dims == (1 .. MaxDim) \cup RepresentativeDims
CubeSizes == {1, 2, 4, 8, kIrradianceMapSize, kPrecomputedSpecularMapSize, 4096}
TextureKinds2D == {"LinearUNorm2D", "Normal2D", "SRGB2D"}

\* CreateEnvironmentTextures, CreateMaterials: the helpers are constructed first.
ConstructHelpers ==
    /\ ~mipGen.constructed
    /\ mipGen' = MipmapGeneratorNew
    /\ converter' = PanoramaToCubemapConverterNew
    /\ UNCHANGED <<texture, passes, convertPass, calls>>
    /\ UNCHANGED submitted
    /\ UNCHANGED <<appVars, otherVars>>

\* CreateTexture: a model texture is created and GenerateMipmaps is called
\* with the extent it was created with.
CreateTexture ==
    /\ mipGen.constructed
    /\ calls.count < MaxCalls
    /\ \E width \in Dims, height \in Dims, kind \in TextureKinds2D :
         /\ texture' = [kind |-> kind, width |-> width, height |-> height, layers |-> 1,
                        mipLevelCount |-> CreateTextureMipLevelCount(width, height),
                        storageBinding |-> CreateTextureStorageBinding(kind)]
         /\ passes' = GenerateMipmaps(mipGen, width, height, CreateTextureMipKind(kind))
         /\ convertPass' = <<>>
         /\ calls' = [last |-> CreateTextureMipKind(kind), count |-> calls.count + 1]
         /\ submitted' = CreateTextureQueue(mipGen, width, height, kind)
    /\ UNCHANGED <<mipGen, converter>>
    /\ UNCHANGED <<appVars, otherVars>>

\* CreateEnvironmentTexture for a cubemap (environment, irradiance, specular).
CreateEnvironmentCube ==
    /\ mipGen.constructed
    /\ \E size \in CubeSizes :
         texture' = [kind |-> "Float16Cube", width |-> size, height |-> size,
                     layers |-> numFaces,
                     mipLevelCount |-> CreateEnvironmentTextureMipLevelCount(size, size, TRUE),
                     storageBinding |-> TRUE]
    /\ passes' = <<>>
    /\ convertPass' = <<>>
    /\ calls' = [calls EXCEPT !.last = "CreateEnvironmentTexture"]
    /\ submitted' = <<>>
    /\ UNCHANGED <<mipGen, converter>>
    /\ UNCHANGED <<appVars, otherVars>>

ConvertPanorama ==
    /\ converter.constructed
    /\ texture.kind = "Float16Cube"
    /\ calls.count < MaxCalls
    /\ passes' = UploadAndConvert(converter, texture.width, texture.height)
    /\ convertPass' = UploadAndConvertCommands(converter, texture.width, texture.height)
    /\ calls' = [last |-> "UploadAndConvert", count |-> calls.count + 1]
    /\ UNCHANGED <<mipGen, converter, texture>>
    /\ UNCHANGED submitted
    /\ UNCHANGED <<appVars, otherVars>>

\* GenerateMipmaps(texture, {size, size, 6}, Float16Cube)
GenerateCubeMipmaps ==
    /\ mipGen.constructed
    /\ texture.kind = "Float16Cube"
    /\ calls.count < MaxCalls
    /\ passes' = GenerateMipmaps(mipGen, texture.width, texture.height, "Float16Cube")
    /\ calls' = [last |-> "Float16Cube", count |-> calls.count + 1]
    /\ UNCHANGED <<mipGen, converter, texture, convertPass>>
    /\ UNCHANGED submitted
    /\ UNCHANGED <<appVars, otherVars>>

\* GenerateMaps on the prefiltered specular cubemap the renderer created.
PrefilterSpecular ==
    /\ mipGen.constructed
    /\ texture.kind = "Float16Cube"
    /\ texture.width = kPrecomputedSpecularMapSize
    /\ calls.count < MaxCalls
    /\ passes' = GenerateMapsSpecular(texture.mipLevelCount)
    /\ calls' = [last |-> "GenerateMaps", count |-> calls.count + 1]
    /\ UNCHANGED <<mipGen, converter, texture, convertPass>>
    /\ UNCHANGED submitted
    /\ UNCHANGED <<appVars, otherVars>>

NextMip ==
    \/ ConstructHelpers
    \/ PrefilterSpecular
    \/ CreateTexture
    \/ CreateEnvironmentCube
    \/ ConvertPanorama
    \/ GenerateCubeMipmaps

SpecMip == Init /\ [][NextMip]_vars

\* ----------------------------------------------------------------------
\* The Vulkan renderer behind the application's calls (SpecVk)

VkDevice == [r |-> vk, q |-> vkQueue]

VkInitialize ==
    /\ ~vk.core
    /\ \E imageCount \in SwapchainImageCounts :
         LET d == VulkanInitialize(VkDevice, imageCount)
         IN  /\ vk' = d.r
             /\ vkQueue' = d.q
             /\ vkEvent' = [NoVkEvent EXCEPT !.op = "Initialize"]
    /\ UNCHANGED <<appVars, mipVars, bkVars, keyVars, cubeSize>>

\* OnFrame -> VulkanRenderer::Render
VkRender ==
    /\ vk.core
    /\ vk.frames < MaxVkFrames
    /\ RenderFenceWaitDone(vk)
    /\ \E acquire \in AcquireResults, present \in PresentResults,
          imageCount \in SwapchainImageCounts, imageIndex \in 0 .. (vk.swapchainImages - 1) :
         LET out == VulkanRender(VkDevice, acquire, imageIndex, present, imageCount)
         IN  /\ (acquire \notin {"eSuccess", "eSuboptimalKHR"} => imageIndex = 0)
             /\ (acquire \in {"eSuccess", "eSuboptimalKHR", "eNotReady"}
                   /\ present = "eSuccess" => imageCount = vk.swapchainImages)
             /\ (acquire \notin {"eSuccess", "eSuboptimalKHR"} => present = "eSuccess")
             /\ vk' = out.d.r
             /\ vkQueue' = out.d.q
             /\ vkEvent' = out.event
    /\ UNCHANGED <<appVars, mipVars, bkVars, keyVars, cubeSize>>

\* waitForFences gave up: eTimeout, the fence is still unsignalled.
VkRenderTimeout ==
    /\ vk.core
    /\ vk.inFlightFences[vk.currentFrame] # "signaled"
    /\ vkEvent' = [NoVkEvent EXCEPT !.op = "RenderTimeout", !.slot = vk.currentFrame]
    /\ UNCHANGED <<vk, vkQueue>>
    /\ UNCHANGED <<appVars, mipVars, bkVars, keyVars, cubeSize>>

\* OnResize -> VulkanRenderer::Resize
VkResize ==
    /\ vk.core
    /\ \E imageCount \in SwapchainImageCounts :
         LET d == VulkanResize(VkDevice, imageCount)
         IN  /\ vk' = d.r
             /\ vkQueue' = d.q
             /\ vkEvent' = [NoVkEvent EXCEPT !.op = "Resize"]
    /\ UNCHANGED <<appVars, mipVars, bkVars, keyVars, cubeSize>>

\* The queue finishes its oldest submission.
VkQueueFinish ==
    /\ vkQueue # <<>>
    /\ vk' = QueueFinish(vk, Head(vkQueue))
    /\ vkQueue' = Tail(vkQueue)
    /\ UNCHANGED vkEvent
    /\ UNCHANGED <<appVars, mipVars, bkVars, keyVars, cubeSize>>

\* ~VulkanRenderer: Shutdown, then the members are released.
VkDestroy ==
    /\ vk.core
    /\ LET d == VulkanShutdown(VkDevice)
       IN  /\ d.q = <<>>
           /\ vk' = NoVulkanRenderer
           /\ vkQueue' = d.q
    /\ vkEvent' = [NoVkEvent EXCEPT !.op = "Shutdown"]
    /\ UNCHANGED <<appVars, mipVars, bkVars, keyVars, cubeSize>>

NextVk ==
    \/ VkInitialize
    \/ VkRender
    \/ VkRenderTimeout
    \/ VkResize
    \/ VkQueueFinish
    \/ VkDestroy

SpecVk == Init /\ [][NextVk]_vars

\* ----------------------------------------------------------------------
\* The application with any set of registered backends (SpecBackend)

BkDroppedFiles == { <<"m", ".", "g", "l", "b">>, <<"s", ".", "H", "d", "R">> }
BkDecodeResults == {NoImage, [ok |-> TRUE, w |-> 2, h |-> 1]}

BkApp ==
    [backendName |-> backendName, renderer |-> renderer, inFlight |-> inFlight,
     initialized |-> InitializedOf(renderer), trace |-> <<>>, shutdowns |-> <<>>,
     create |-> NoCreate]

BkEvent(op, a) ==
    [op |-> op, rendererBefore |-> renderer, trace |-> a.trace, shutdowns |-> a.shutdowns,
     create |-> a.create]

\* The calls a handler makes on _renderer behind its null check.
BkCall(method) ==
    IF renderer.backend # "none"
    THEN [BkApp EXCEPT !.trace = << TraceStep(method, renderer.backend,
                                              InitializedOf(renderer)) >>]
    ELSE BkApp

\* emscripten_set_main_loop_arg keeps calling the handlers after RequestQuit.
BkHandlersRun == appPhase \in {"running", "quit"} /\ ~exited

\* The static initializers of the backends that are linked in.
BkRegister ==
    /\ appPhase = "constructed"
    /\ \E name \in {KnownBackends[i] : i \in 1 .. Len(KnownBackends)} :
         factories' = factories \cup {name}
    /\ UNCHANGED <<backendName, bkEvent>>
    /\ UNCHANGED <<appVars, mipVars, vkVars, keyVars, cubeSize>>

BkOnInit ==
    /\ appPhase = "constructed"
    /\ \E arg \in BackendNameArgs, dec \in BkDecodeResults :
         LET loaded == EnvironmentLoad(environment, HelipadHdr, dec)
             made == CreateRenderer([BkApp EXCEPT !.backendName = arg], factories, arg,
                                    loaded.env, DamagedHelmetGlb, loads + 1)
             isNull == made.renderer.backend = "none"
         IN  /\ environment' = loaded.env
             /\ modelName' = DamagedHelmetGlb
             /\ renderer' = made.renderer
             /\ appPhase' = IF isNull THEN "quit" ELSE "running"
             /\ backendName' = IF ~isNull /\ arg = "" THEN DefaultBackend ELSE arg
             /\ loads' = IF made.renderer.backend = "webgpu" THEN loads + 1 ELSE loads
             /\ bkEvent' = BkEvent("OnInit", made)
    /\ UNCHANGED <<exited, loadLog, inFlight, pendingError, lastEvent, factories>>
    /\ UNCHANGED <<mipVars, vkVars, keyVars, cubeSize>>

BkOnFrame ==
    /\ BkHandlersRun
    /\ Len(inFlight) < MaxInFlight
    /\ inFlight' = IF renderer.backend # "none"
                   THEN Append(inFlight, FrameOf(renderer))
                   ELSE inFlight
    /\ bkEvent' = BkEvent("OnFrame", BkCall("Render"))
    /\ UNCHANGED <<appPhase, exited, environment, modelName, renderer, loads, loadLog,
                   pendingError, lastEvent, factories, backendName>>
    /\ UNCHANGED <<mipVars, vkVars, keyVars, cubeSize>>

BkGpuComplete ==
    /\ BkHandlersRun
    /\ inFlight # <<>>
    /\ inFlight' = Tail(inFlight)
    /\ UNCHANGED <<appPhase, exited, environment, modelName, renderer, loads, loadLog,
                   pendingError, lastEvent, factories, backendName, bkEvent>>
    /\ UNCHANGED <<mipVars, vkVars, keyVars, cubeSize>>

BkOnResize ==
    /\ BkHandlersRun
    /\ \E size \in FramebufferSizes :
         renderer' = IF renderer.backend # "none" THEN Resize(renderer, size) ELSE renderer
    /\ bkEvent' = BkEvent("OnResize", BkCall("Resize"))
    /\ UNCHANGED <<appPhase, exited, environment, modelName, loads, loadLog, inFlight,
                   pendingError, lastEvent, factories, backendName>>
    /\ UNCHANGED <<mipVars, vkVars, keyVars, cubeSize>>

\* VulkanRenderer::UpdateModel and UpdateEnvironment do nothing yet.
BkOnFileDropped ==
    /\ BkHandlersRun
    /\ \E filename \in BkDroppedFiles, dec \in BkDecodeResults :
         LET isModel == Extension(filename) = <<"g", "l", "b">>
             loaded == EnvironmentLoad(environment, filename, dec)
             webgpu == renderer.backend = "webgpu"
         IN  IF isModel
             THEN /\ dec = NoImage
                  /\ modelName' = filename
                  /\ renderer' = IF webgpu THEN UpdateModel(renderer, filename) ELSE renderer
                  /\ bkEvent' = BkEvent("OnFileDropped", BkCall("UpdateModel"))
                  /\ UNCHANGED <<environment, loads>>
             ELSE /\ loads < MaxLoads
                  /\ environment' = loaded.env
                  /\ renderer' = IF webgpu
                                 THEN UpdateEnvironment(renderer, loaded.env, loads + 1,
                                                        0, FALSE).r
                                 ELSE renderer
                  /\ loads' = IF webgpu THEN loads + 1 ELSE loads
                  /\ bkEvent' = BkEvent("OnFileDropped", BkCall("UpdateEnvironment"))
                  /\ UNCHANGED modelName
    /\ UNCHANGED <<appPhase, exited, loadLog, inFlight, pendingError, lastEvent, factories,
                   backendName>>
    /\ UNCHANGED <<mipVars, vkVars, keyVars, cubeSize>>

\* OnKeyPressed with GLFW_KEY_B
BkSwitchToNextBackend ==
    /\ BkHandlersRun
    /\ loads < MaxLoads
    /\ LET out == SwitchToNextBackend(BkApp, factories, environment, modelName, loads + 1)
       IN  /\ renderer' = out.renderer
           /\ inFlight' = out.inFlight
           /\ backendName' = out.backendName
           /\ loads' = IF out.trace # <<>> /\ out.renderer.backend = "webgpu"
                       THEN loads + 1 ELSE loads
           /\ bkEvent' = BkEvent("SwitchToNextBackend", out)
    /\ UNCHANGED <<appPhase, exited, environment, modelName, loadLog, pendingError,
                   lastEvent, factories>>
    /\ UNCHANGED <<mipVars, vkVars, keyVars, cubeSize>>

\* ~GltfViewerApp: _renderer is destroyed, its destructor calls Shutdown.
BkDestroy ==
    /\ appPhase \in {"running", "quit"}
    /\ LET first == RendererShutdown(renderer, inFlight)
           out == IF renderer.backend = "none" THEN BkApp
                  ELSE [BkApp EXCEPT
                          !.renderer = NoRenderer,
                          !.inFlight = first.inFlight,
                          !.shutdowns = << ShutdownRecord(renderer, inFlight, first) >>,
                          !.trace = << TraceStep("Destroy", renderer.backend, {}) >>]
       IN  /\ renderer' = out.renderer
           /\ inFlight' = out.inFlight
           /\ bkEvent' = BkEvent("Destroy", out)
    /\ appPhase' = "destroyed"
    /\ UNCHANGED <<exited, environment, modelName, loads, loadLog, pendingError, lastEvent,
                   factories, backendName>>
    /\ UNCHANGED <<mipVars, vkVars, keyVars, cubeSize>>

NextBackend ==
    \/ BkRegister
    \/ BkOnInit
    \/ BkOnFrame
    \/ BkGpuComplete
    \/ BkOnResize
    \/ BkOnFileDropped
    \/ BkSwitchToNextBackend
    \/ BkDestroy

SpecBackend == Init /\ [][NextBackend]_vars

\* ----------------------------------------------------------------------
\* Key events delivered by GLFW, in any order (SpecKey)

KeyEvent(action) ==
    \E key \in KeyInputs :
        LET out == KeyCallback(keyState, key, action)
        IN  /\ keyState' = out.keyState
            /\ keyEvent' = [key |-> key, action |-> action, invoked |-> out.invoked,
                            sinceInvoked |-> IF key \in TrackedKeys
                                             THEN keySinceInvoked[key] ELSE "never"]
            /\ keySinceInvoked' =
                 IF key \notin TrackedKeys THEN keySinceInvoked
                 ELSE IF out.invoked THEN [keySinceInvoked EXCEPT ![key] = "held"]
                 ELSE IF action = "GLFW_RELEASE" /\ keySinceInvoked[key] = "held"
                 THEN [keySinceInvoked EXCEPT ![key] = "released"]
                 ELSE keySinceInvoked
            /\ UNCHANGED <<appVars, mipVars, vkVars, bkVars, cubeSize>>

KeyPress == KeyEvent("GLFW_PRESS")
KeyRelease == KeyEvent("GLFW_RELEASE")
KeyRepeat == KeyEvent("GLFW_REPEAT")

NextKey ==
    \/ KeyPress
    \/ KeyRelease
    \/ KeyRepeat

SpecKey == Init /\ [][NextKey]_vars

\* ----------------------------------------------------------------------
\* FloorPow2 and the face size of the environment cubemap (SpecPow2)

\* The int values FloorPow2 is called with: -1, and the panorama widths
\* Environment::Load can store.
FloorPow2Inputs == (-1) .. kMaxEnvironmentWidth

\* CreateEnvironmentTextures for a panorama of the given width.  FloorPow2
\* keeps no state between calls, so a behaviour makes one call.
ChooseCubeSize ==
    /\ ~cubeSize.called
    /\ \E x \in FloorPow2Inputs :
         LET env == [NewEnvironment EXCEPT !.texture.width = Max(x, 0)]
             made == CreateEnvironmentTextures(NoRenderer, env, 1, StepEnd)
         IN  cubeSize' = [called |-> TRUE, x |-> x, result |-> FloorPow2(x),
                          iterations |-> FloorPow2Iterations(1, x),
                          faceSize |-> made.log[1].size]
    /\ UNCHANGED <<appVars, mipVars, vkVars, bkVars, keyVars>>

NextPow2 == ChooseCubeSize

SpecPow2 == Init /\ [][NextPow2]_vars

\* ----------------------------------------------------------------------
\* Properties of the application and the renderer (Spec)

IsPrefix(s, t) == Len(s) <= Len(t) /\ \A i \in 1 .. Len(s) : s[i] = t[i]

StageNames(log) == [i \in 1 .. Len(log) |-> <<log[i].stage, log[i].target>>]

LoadOrder ==
    << <<"UploadAndConvert", "environment">>,
       <<"GenerateMipmaps", "environment">>,
       <<"GenerateMaps", "environment">>,
       <<"GenerateMipmaps", "irradiance">>,
       <<"CreateGlobalBindGroup", "global">> >>

RendererReady == renderer.backend # "none" /\ ~exited

\* C1: every environment load (the initial one and each UpdateEnvironment)
\* submits UploadAndConvert(environment), GenerateMipmaps(environment),
\* GenerateMaps, GenerateMipmaps(irradiance) once each and in this order, and
\* the global bind group is rebuilt only after all four: what a load has
\* submitted is always a prefix of that order, a load that returned has
\* submitted all of it, and a bind group over this load's views exists only
\* when the four stages precede it.
C1_LoadOrder ==
    /\ IsPrefix(StageNames(loadLog), LoadOrder)
    /\ (RendererReady => StageNames(loadLog) = LoadOrder)
    /\ (renderer.globalBindGroup.created /\ renderer.globalBindGroup.environment.gen = loads
            => StageNames(loadLog) = LoadOrder)
    /\ \A i \in 1 .. Len(loadLog) :
          loadLog[i].target = "environment" =>
              loadLog[i].size = FloorPow2(environment.texture.width)

C1_Witness ==
    /\ lastEvent.op = "DropEnvironment"
    /\ lastEvent.loadOk
    /\ RendererReady
    /\ loads = 2
    /\ Len(loadLog) = 5

BindingsOf(g) == {g.environment, g.irradiance, g.specular, g.brdfLut}

\* C2: whenever Render can run, and for every frame it has submitted, the
\* environment, irradiance, specular and BRDF LUT bindings of the global bind
\* group are views of IBL textures created by one and the same environment
\* load (for the bind group: the most recent load), never a fallback texture.
C2_BindingsFromOneLoad ==
    /\ RendererReady =>
          /\ renderer.globalBindGroup.created
          /\ \A b \in BindingsOf(renderer.globalBindGroup) :
                b.kind = "ibl" /\ b.gen = loads
    /\ \A i \in 1 .. Len(inFlight) :
          /\ \A b \in BindingsOf(inFlight[i]) : b.kind = "ibl"
          /\ \A b, c \in BindingsOf(inFlight[i]) : b.gen = c.gen

C2_Witness ==
    /\ RendererReady
    /\ loads = 2
    /\ Len(inFlight) = 2
    /\ inFlight[1].environment.gen = 1
    /\ inFlight[2].environment.gen = 2

\* C3: UpdateEnvironment waits for the device to be idle before it releases the
\* previous IBL textures and views: no frame still in flight samples a texture
\* the renderer has already let go of.
C3_IdleBeforeRelease ==
    \A i \in 1 .. Len(inFlight) :
        /\ inFlight[i].environment.gen = renderer.environmentTextureView
        /\ inFlight[i].irradiance.gen = renderer.iblIrradianceTextureView
        /\ inFlight[i].specular.gen = renderer.iblSpecularTextureView
        /\ inFlight[i].brdfLut.gen = renderer.iblBrdfIntegrationLUTView

ReloadFailed ==
    /\ lastEvent.op = "DropEnvironment"
    /\ lastEvent.rendererBefore.backend # "none"
    /\ lastEvent.failAt # 0

\* C4: when a GPU resource creation fails during an environment reload, the
\* failure comes back to the caller (the process goes on) and the renderer
\* still holds, and still binds, the IBL set it had before the reload.
C4_FailedReloadKeepsPreviousSet ==
    ReloadFailed =>
        /\ ~exited
        /\ IblHandles(renderer) = IblHandles(lastEvent.rendererBefore)
        /\ renderer.globalBindGroup = lastEvent.rendererBefore.globalBindGroup

\* C5: when a dropped .hdr file fails validation in Environment::Load, no
\* environment load is run for it and the IBL textures bound before the drop
\* are neither released nor replaced.
C5_InvalidDropAborts ==
    (lastEvent.op = "DropEnvironment" /\ ~lastEvent.loadOk) =>
        /\ loads = lastEvent.loadsBefore
        /\ IblHandles(renderer) = IblHandles(lastEvent.rendererBefore)

\* The name ends in '.' followed by ext in any letter case (ext has no '.').
SameLetter(c, d) ==
    \/ c = d
    \/ <<c, d>> \in { <<"H", "h">>, <<"D", "d">>, <<"R", "r">>, <<"G", "g">>,
                       <<"L", "l">>, <<"T", "t">>, <<"F", "f">>, <<"B", "b">> }
EndsWithDot(name, ext) ==
    /\ Len(name) > Len(ext)
    /\ name[Len(name) - Len(ext)] = "."
    /\ \A k \in 1 .. Len(ext) : SameLetter(name[Len(name) - Len(ext) + k], ext[k])

IsDrop == lastEvent.op \in {"DropModel", "DropEnvironment", "DropUnsupported"}

\* C15: a dropped file whose name ends in .glb or .gltf (any letter case)
\* becomes the model and is passed to UpdateModel, the environment and the IBL
\* set staying as they were; one that ends in .hdr goes to Environment::Load
\* and starts an environment load on the renderer, the model staying as it
\* was; for any other name, and for a name with no '.', the model, the
\* environment and the renderer are left unchanged.
C15_DropRouting ==
    IsDrop =>
        LET name == lastEvent.filename
            isModel == EndsWithDot(name, <<"g", "l", "b">>)
                          \/ EndsWithDot(name, <<"g", "l", "t", "f">>)
            isEnvironment == EndsWithDot(name, <<"h", "d", "r">>)
        IN  /\ (isModel =>
                  /\ lastEvent.op = "DropModel"
                  /\ modelName = name
                  /\ renderer.modelName = name
                  /\ environment = lastEvent.envBefore
                  /\ loads = lastEvent.loadsBefore
                  /\ IblHandles(renderer) = IblHandles(lastEvent.rendererBefore))
            /\ (isEnvironment =>
                  /\ lastEvent.op = "DropEnvironment"
                  /\ loads = lastEvent.loadsBefore + 1
                  /\ (lastEvent.loadOk => environment.texture.name = name)
                  /\ renderer.modelName = lastEvent.rendererBefore.modelName)
            /\ (~isModel /\ ~isEnvironment =>
                  /\ lastEvent.op = "DropUnsupported"
                  /\ environment = lastEvent.envBefore
                  /\ renderer = lastEvent.rendererBefore
                  /\ loads = lastEvent.loadsBefore)

C15_Witness ==
    /\ lastEvent.op = "DropUnsupported"
    /\ lastEvent.filename = <<"h", "d", "r">>
    /\ modelName = <<"m", ".", "G", "L", "T", "F">>
    /\ environment.texture.name = <<"s", ".", "H", "d", "R">>
    /\ loads = 2

\* The latest handler ran an environment load (CreateEnvironmentTextures) on
\* the panorama now stored in the environment.
RanEnvironmentLoad ==
    /\ lastEvent.op \in {"OnInit", "DropEnvironment"}
    /\ loads = lastEvent.loadsBefore + 1

\* C16: whenever CreateEnvironmentTextures runs (start-up, file drop) the
\* panorama it is given has width >= 2 and height >= 1.
C16_PanoramaNeverEmpty ==
    RanEnvironmentLoad =>
        /\ environment.texture.width >= 2
        /\ environment.texture.height >= 1

\* C18: Render, Resize, ReloadShaders and UpdateModel leave the environment,
\* irradiance, specular and BRDF LUT textures and views, and the bind group
\* over them, as they found them; a step that changes any of them is an
\* environment load (Initialize, UpdateEnvironment) or Shutdown.
C18_OnlyLoadsTouchIbl ==
    /\ (lastEvent.op \in {"Render", "RenderNoSurface", "Resize", "ReloadShaders", "DropModel"} =>
          /\ IblHandles(renderer) = IblHandles(lastEvent.rendererBefore)
          /\ renderer.globalBindGroup = lastEvent.rendererBefore.globalBindGroup
          /\ loads = lastEvent.loadsBefore)
    /\ (IblHandles(renderer) # IblHandles(lastEvent.rendererBefore) =>
          lastEvent.op \in {"OnInit", "DropEnvironment", "Shutdown"})

C18_Witness ==
    /\ lastEvent.op = "DropModel"
    /\ lastEvent.rendererBefore.pipelines = "edited"
    /\ lastEvent.rendererBefore.depthTexture = "resized"
    /\ lastEvent.rendererBefore.modelName # renderer.modelName
    /\ Len(inFlight) = 1
    /\ loads = 2
    /\ renderer.iblSpecularTexture = 2

StagesRun == { loadLog[i].stage : i \in 1 .. Len(loadLog) }

\* C19: the renderer never holds a BRDF LUT of an earlier load; a load that
\* reaches GenerateMaps has by then created its own LUT texture and view,
\* different from the ones held before it, and the bind group a load builds
\* binds the LUT view of that load.
C19_FreshLutEachLoad ==
    /\ renderer.iblBrdfIntegrationLUT \in {NullHandle, loads}
    /\ renderer.iblBrdfIntegrationLUTView \in {NullHandle, loads}
    /\ (RanEnvironmentLoad /\ "GenerateMaps" \in StagesRun =>
          /\ renderer.iblBrdfIntegrationLUT = loads
          /\ renderer.iblBrdfIntegrationLUTView = loads
          /\ renderer.iblBrdfIntegrationLUT # lastEvent.rendererBefore.iblBrdfIntegrationLUT)
    /\ (RanEnvironmentLoad /\ "CreateGlobalBindGroup" \in StagesRun =>
          renderer.globalBindGroup.brdfLut = [kind |-> "ibl", gen |-> loads])

C19_Witness ==
    /\ RanEnvironmentLoad
    /\ lastEvent.op = "DropEnvironment"
    /\ lastEvent.rendererBefore.iblBrdfIntegrationLUT = 1
    /\ lastEvent.rendererBefore.globalBindGroup.brdfLut.gen = 1
    /\ renderer.iblBrdfIntegrationLUT = 2
    /\ renderer.globalBindGroup.brdfLut.gen = 2
    /\ "GenerateMaps" \in StagesRun

ShaderFileMissing ==
    /\ RanEnvironmentLoad
    /\ lastEvent.failAt = StepMipmapGenerator

\* C20: when a shader file of MipmapGenerator or PanoramaToCubemapConverter
\* cannot be opened, the load stops there: the process ends with the
\* diagnostic, no preprocessing stage is submitted and no bind group is built
\* over the textures of that load.
C20_MissingShaderAborts ==
    ShaderFileMissing =>
        /\ exited
        /\ loadLog = <<>>
        /\ \A b \in BindingsOf(renderer.globalBindGroup) : b.gen # loads

\* ----------------------------------------------------------------------
\* Properties of Environment (SpecEnv)

\* C6: Environment::Load returns false exactly when the image cannot be decoded
\* or its width is not 2 x height, and then the stored texture (name, width,
\* height, components, data) and the transform are what they were before.
C6_FailedLoadChangesNothing ==
    lastEvent.op = "Load" =>
        /\ lastEvent.loadOk = (lastEvent.dec.ok /\ lastEvent.dec.w = 2 * lastEvent.dec.h)
        /\ (~lastEvent.loadOk => environment = lastEvent.envBefore)

C6_Witness ==
    /\ lastEvent.op = "Load"
    /\ lastEvent.dec.ok
    /\ ~lastEvent.loadOk
    /\ lastEvent.envBefore.texture.width = 4
    /\ lastEvent.envBefore.transform = "rotated"
    /\ environment = lastEvent.envBefore

\* C13: after a successful Environment::Load the stored texture has width =
\* 2 x height, width <= 4096, 4 components and width x height x 4 floats; an
\* image decoded wider than 4096 is stored as 4096 x 2048 and any other image
\* with its decoded size.  Failed loads and rotations keep this for the
\* texture of the last successful load.
C13_StoredTextureShape ==
    /\ (lastEvent.op = "Load" /\ lastEvent.loadOk =>
          /\ environment.texture.name = lastEvent.filename
          /\ IF lastEvent.dec.w > 4096
             THEN /\ environment.texture.width = 4096
                  /\ environment.texture.height = 2048
             ELSE /\ environment.texture.width = lastEvent.dec.w
                  /\ environment.texture.height = lastEvent.dec.h)
    /\ (environment.texture # EmptyTexture =>
          /\ environment.texture.width = 2 * environment.texture.height
          /\ environment.texture.width <= 4096
          /\ environment.texture.components = 4
          /\ environment.texture.dataLen =
                environment.texture.width * environment.texture.height * 4)

C13_Witness ==
    /\ lastEvent.op = "Load"
    /\ lastEvent.loadOk
    /\ lastEvent.dec.w = 8192
    /\ lastEvent.envBefore.texture.width = 4096
    /\ lastEvent.envBefore.texture.name # lastEvent.filename
    /\ environment.texture.width = 4096
    /\ environment.texture.height = 2048
    /\ environment.texture.dataLen = 33554432

\* ----------------------------------------------------------------------
\* Properties of the helpers (SpecMip)

\* The latest operation filled the mip chain of the current texture.
MipsGenerated == calls.last \in MipKinds

FacesOf(ps) == { ps[k].face : k \in 1 .. Len(ps) }
LevelsOfFace(ps, face) ==
    LET own == SelectSeq(ps, LAMBDA p : p.face = face)
    IN  [k \in 1 .. Len(own) |-> own[k].outputLevel]

\* C7: in the 2D compute, cube compute and sRGB render paths, the pass that
\* writes level L (1 <= L < mipLevelCount) has level L-1 of the texture as its
\* input, and the passes of one face are recorded for L = 1, 2, ...,
\* mipLevelCount-1 in this order.
C7_SingleStepChain ==
    MipsGenerated =>
        /\ \A k \in 1 .. Len(passes) :
              /\ passes[k].path \in {"compute2D", "computeCube", "renderSRGB"}
              /\ passes[k].inputLevel = passes[k].outputLevel - 1
        /\ \A face \in FacesOf(passes) :
              LevelsOfFace(passes, face) = [L \in 1 .. (texture.mipLevelCount - 1) |-> L]
        /\ (texture.mipLevelCount > 1 =>
              FacesOf(passes) = IF texture.kind = "Float16Cube" THEN Faces ELSE {-1})

C7_Witness ==
    /\ calls.last = "Normal2D"
    /\ texture.width = 513
    /\ texture.height = 3
    /\ Len(passes) = 9

\* C8 as amended: when the cube path records the dispatch for (face f, level L)
\* with L >= 2, the dispatch that writes level L-1 of the same face f has
\* already been recorded.
C8_OwnFaceWrittenFirst ==
    calls.last = "Float16Cube" =>
        \A k \in 1 .. Len(passes) :
            passes[k].outputLevel >= 2 =>
                /\ passes[k].inputLayers = numFaces
                /\ \E j \in 1 .. (k - 1) :
                      /\ passes[j].face = passes[k].face
                      /\ passes[j].outputLevel = passes[k].inputLevel

\* C8: when the cube path records the dispatch for (face f, level L) with
\* L >= 2, with the six-layer view of level L-1 as its input, the dispatches
\* that write level L-1 have been recorded for every one of the six faces.
C8_AllFacesWrittenFirst ==
    calls.last = "Float16Cube" =>
        \A k \in 1 .. Len(passes) :
            passes[k].outputLevel >= 2 =>
                \A face \in Faces :
                    \E j \in 1 .. (k - 1) :
                        /\ passes[j].face = face
                        /\ passes[j].outputLevel = passes[k].inputLevel

C8_Witness ==
    /\ calls.last = "Float16Cube"
    /\ texture.width = 8
    /\ Len(passes) = 18
    /\ passes[2].face = 0
    /\ passes[2].outputLevel = 2

\* C9: for every extent with max(w, h) >= 1 the mip level count n the texture
\* is created with is floor(log2(max(w, h))) + 1, that is 2^(n-1) <= max(w, h)
\* < 2^n, and the generator that processes it writes exactly the levels
\* 1 .. n-1; (1,1) gives 1, (1,1024) gives 11, (513,513) gives 10 and
\* (4096,2048) gives 13.
C9_MipLevelCount ==
    texture.kind # "none" =>
        LET m == Max(texture.width, texture.height)
            n == texture.mipLevelCount
        IN  /\ m >= 1
            /\ 2 ^ (n - 1) <= m
            /\ m < 2 ^ n
            /\ (MipsGenerated =>
                   { passes[k].outputLevel : k \in 1 .. Len(passes) } = 1 .. (n - 1))
            /\ (texture.width = 1 /\ texture.height = 1 => n = 1)
            /\ (texture.width = 1 /\ texture.height = 1024 => n = 11)
            /\ (texture.width = 513 /\ texture.height = 513 => n = 10)
            /\ (texture.width = 4096 /\ texture.height = 2048 => n = 13)

C9_Witness ==
    /\ MipsGenerated
    /\ texture.width = 4096
    /\ texture.height = 2048
    /\ texture.mipLevelCount = 13
    /\ Len(passes) = 12

HoldsOwnIndex(helper) ==
    helper.constructed =>
        \A face \in Faces : helper.uniformBuffers[helper.faceBindGroups[face]] = face

\* C10: in the panorama resampler and in the cube mip generator the uniform
\* buffer bound for loop iteration face = i holds i, from construction on and
\* whatever calls were made since, and the faces are dispatched in ascending
\* order 0..5.
C10_FaceUniformIsFace ==
    /\ HoldsOwnIndex(mipGen)
    /\ HoldsOwnIndex(converter)
    /\ \A k \in 1 .. Len(passes) :
          passes[k].face >= 0 => passes[k].faceUniform = passes[k].face
    /\ (calls.last = "UploadAndConvert" =>
          [k \in 1 .. Len(passes) |-> passes[k].face] = <<0, 1, 2, 3, 4, 5>>)
    /\ (calls.last = "Float16Cube" /\ passes # <<>> =>
          /\ passes[1].face = 0
          /\ passes[Len(passes)].face = numFaces - 1
          /\ \A k \in 2 .. Len(passes) :
                passes[k].face \in {passes[k - 1].face, passes[k - 1].face + 1})

C10_Witness ==
    /\ calls.last = "Float16Cube"
    /\ calls.count >= 3
    /\ texture.width = kIrradianceMapSize
    /\ Len(passes) = 36
    /\ passes[36].faceUniform = 5

CommandIndices(cs, cmd) == { k \in 1 .. Len(cs) : cs[k].cmd = cmd }
Group0Sets(cs) == { k \in CommandIndices(cs, "SetBindGroup") : cs[k].group = 0 }

\* C11: UploadAndConvert records exactly six dispatches, one per face 0..5,
\* each right after the bind group of its face is set; bind group 0 (sampler,
\* panorama, output view) is set exactly once, before the first of them, and
\* its output view is mip level 0 only of the six layers, so no dispatch writes
\* a level >= 1 of the destination.
C11_SixDispatchesSharedGroup0 ==
    calls.last = "UploadAndConvert" =>
        LET dispatches == CommandIndices(convertPass, "DispatchWorkgroups")
        IN  /\ Cardinality(dispatches) = 6
            /\ { convertPass[k].face : k \in dispatches } = Faces
            /\ \A k \in dispatches :
                  /\ convertPass[k - 1].cmd = "SetBindGroup"
                  /\ convertPass[k - 1].group = 1
                  /\ convertPass[k - 1].face = convertPass[k].face
            /\ Cardinality(Group0Sets(convertPass)) = 1
            /\ \A g \in Group0Sets(convertPass) :
                  /\ \A k \in dispatches : g < k
                  /\ convertPass[g].bindGroup.outputView.baseMipLevel = 0
                  /\ convertPass[g].bindGroup.outputView.mipLevelCount = 1
                  /\ convertPass[g].bindGroup.outputView.arrayLayerCount = numFaces
            /\ Len(passes) = 6
            /\ \A k \in 1 .. Len(passes) :
                  passes[k].outputLevel = 0 /\ passes[k].face = k - 1

C11_Witness ==
    /\ calls.last = "UploadAndConvert"
    /\ texture.width = 4096
    /\ texture.mipLevelCount = 13
    /\ Len(convertPass) = 14
    /\ convertPass[14].cmd = "DispatchWorkgroups"
    /\ convertPass[14].face = 5
    /\ convertPass[14].x = 512

\* The path and pipeline each kind tag stands for.
StrategyOf(kind) ==
    CASE kind = "LinearUNorm2D" -> <<"compute2D", "_pipeline2D">>
      [] kind = "Normal2D" -> <<"compute2D", "_pipelineNormal2D">>
      [] kind = "Float16Cube" -> <<"computeCube", "_pipelineCube">>
      [] kind = "SRGB2D" -> <<"renderSRGB", "_renderPipelineSRGB2D">>

\* C12: whatever the extent, every pass GenerateMipmaps records uses the path
\* and pipeline of the kind tag it was called with (LinearUNorm2D: 2D compute,
\* linear pipeline; Normal2D: 2D compute, normal pipeline; Float16Cube: cube
\* compute; SRGB2D: render pass), and a texture created with kind SRGB2D has no
\* storage usage and gets render passes only, no dispatch.
C12_StrategyFromKind ==
    MipsGenerated =>
        /\ calls.last = texture.kind
        /\ \A k \in 1 .. Len(passes) :
              <<passes[k].path, passes[k].pipeline>> = StrategyOf(calls.last)
        /\ (texture.kind = "SRGB2D" =>
              /\ ~texture.storageBinding
              /\ \A k \in 1 .. Len(passes) :
                    /\ passes[k].path = "renderSRGB"
                    /\ passes[k].workgroupCountX = 0
                    /\ passes[k].workgroupCountY = 0)

C12_Witness ==
    /\ calls.last = "SRGB2D"
    /\ texture.kind = "SRGB2D"
    /\ texture.width = 1024
    /\ texture.height = 3
    /\ Len(passes) = 10
    /\ passes[10].path = "renderSRGB"

RoughnessLeq(a, b) == a.num * b.den <= b.num * a.den

CoversExactly(count, extent, tile) ==
    /\ count >= 1
    /\ count * tile >= extent
    /\ (count - 1) * tile < extent

\* C17: every dispatch of the 2D and cube compute paths that writes level L of
\* a texture of base extent (w, h) works on max(1, w >> L) x max(1, h >> L)
\* texels and has ceil(levelWidth / 8) x ceil(levelHeight / 8) workgroups of
\* 8 x 8 threads: at least one in each axis, enough to cover every texel of
\* the level and none to spare.
C17_WorkgroupsCoverLevel ==
    calls.last \in {"LinearUNorm2D", "Normal2D", "Float16Cube"} =>
        \A k \in 1 .. Len(passes) :
            LET L == passes[k].outputLevel
                shiftedW == texture.width \div (2 ^ L)
                shiftedH == texture.height \div (2 ^ L)
            IN  /\ passes[k].path \in {"compute2D", "computeCube"}
                /\ passes[k].width = (IF shiftedW >= 1 THEN shiftedW ELSE 1)
                /\ passes[k].height = (IF shiftedH >= 1 THEN shiftedH ELSE 1)
                /\ CoversExactly(passes[k].workgroupCountX, passes[k].width, 8)
                /\ CoversExactly(passes[k].workgroupCountY, passes[k].height, 8)

C17_Witness ==
    /\ calls.last = "Float16Cube"
    /\ texture.width = 4096
    /\ Len(passes) = 72
    /\ passes[1].width = 2048
    /\ passes[1].workgroupCountX = 256
    /\ passes[9].width = 8
    /\ passes[9].workgroupCountX = 1
    /\ passes[12].width = 1
    /\ passes[12].workgroupCountY = 1

\* ----------------------------------------------------------------------
\* Properties of the Vulkan renderer (SpecVk)

PendingFor(slot) ==
    {i \in 1 .. Len(vkQueue) : vkQueue[i].kind = "frame" /\ vkQueue[i].slot = slot}

\* C21: CreatePlaceholderCubemap returns only when the queue has finished the
\* layout transition it submitted: the image is in eShaderReadOnlyOptimal when
\* the descriptor sets that reference it are written and when a frame that
\* samples it is submitted, and no transition is ever left on the queue.
C21_TransitionBeforeUse ==
    /\ (vk.descriptorSets.written
          => vk.descriptorSets.layoutAtWrite = "eShaderReadOnlyOptimal")
    /\ (vkEvent.op = "Render" /\ vkEvent.submitted
          => vkEvent.layoutAtSubmit = "eShaderReadOnlyOptimal")
    /\ \A i \in 1 .. Len(vkQueue) : vkQueue[i] # TransitionSubmission

C21_Witness ==
    /\ vk.descriptorSets.written
    /\ vkEvent.op = "Render"
    /\ vkEvent.submitted

\* C22: between calls, the fence of every slot is signalled or a submission
\* that will signal it is on the queue, early returns of Render included.
C22_FenceSignalledOrPending ==
    vk.core => \A s \in Slots : vk.inFlightFences[s] = "signaled" \/ PendingFor(s) # {}

C22_Witness ==
    /\ vkEvent.op = "Render"
    /\ ~vkEvent.submitted
    /\ vk.frames > 0
    /\ vkQueue # <<>>

\* C23: _currentFrame stays in [0, kMaxFramesInFlight), and Render resets the
\* command buffer of a slot only when no submission using it is unfinished;
\* a slot never has two submissions on the queue.
C23_ResetAfterFence ==
    /\ vk.currentFrame \in Slots
    /\ (vkEvent.op = "Render" /\ vkEvent.submitted => ~vkEvent.inUseAtReset)
    /\ \A s \in Slots : Cardinality(PendingFor(s)) <= 1

C23_Witness ==
    /\ vkEvent.op = "Render"
    /\ vkEvent.submitted
    /\ vk.frames > kMaxFramesInFlight

\* ----------------------------------------------------------------------
\* Properties of backend selection and renderer lifetime (SpecBackend)

RendererMethods == {"Initialize", "Render", "Resize", "UpdateModel", "UpdateEnvironment",
                    "Shutdown"}

StepsOf(step) == {i \in 1 .. Len(bkEvent.trace) : bkEvent.trace[i].step = step}

Released(r) ==
    /\ \A f \in DOMAIN IblHandles(r) : IblHandles(r)[f] = NullHandle
    /\ r.globalBindGroup = NullBindGroup
    /\ r.depthTexture = "none"
    /\ r.pipelines = "none"
    /\ ~r.device

\* C24: when SwitchToNextBackend switches, the current renderer is shut down
\* and destroyed before the registry creates the next one and before that one
\* is initialized, and after no step of a handler are two renderers
\* initialized for the window.
C24_OneRendererPerWindow ==
    /\ \A i \in 1 .. Len(bkEvent.trace) : Cardinality(bkEvent.trace[i].initialized) <= 1
    /\ bkEvent.op = "SwitchToNextBackend"
         => \A c \in StepsOf("Create") \cup StepsOf("Initialize") :
              \A e \in StepsOf("Shutdown") \cup StepsOf("Destroy") : e < c

C24_Witness ==
    /\ bkEvent.op = "SwitchToNextBackend"
    /\ Cardinality(factories) >= 2
    /\ StepsOf("Shutdown") # {}
    /\ StepsOf("Destroy") # {}
    /\ StepsOf("Initialize") # {}

\* C25: the first Shutdown of an initialized WebgpuRenderer waits for all
\* submitted work and then releases everything; every later call, the
\* destructor's included, neither waits nor changes anything.
C25_ShutdownIdempotent ==
    \A i \in 1 .. Len(bkEvent.shutdowns) :
        LET s == bkEvent.shutdowns[i]
        IN  s.before.backend = "webgpu" =>
              IF s.before.isShutdown
              THEN ~s.waited /\ s.after = s.before /\ s.pendingAfter = s.pendingBefore
              ELSE /\ s.before.device => s.waited /\ s.pendingAfter = <<>>
                   /\ s.after.isShutdown
                   /\ Released(s.after)

C25_Witness ==
    /\ Len(bkEvent.shutdowns) = 2
    /\ bkEvent.shutdowns[1].before.backend = "webgpu"
    /\ bkEvent.shutdowns[1].pendingBefore # <<>>
    /\ bkEvent.shutdowns[1].waited
    /\ bkEvent.shutdowns[2].before.isShutdown

\* C28: Create gives a null renderer and runs no factory when nothing is
\* registered or the name asked for (the default for an empty name) is not
\* registered, and no handler calls an IRenderer method on a null renderer.
C28_NullRendererNeverUsed ==
    /\ bkEvent.create.requested
         => LET asked == IF bkEvent.op = "OnInit" /\ backendName = ""
                         THEN DefaultBackend ELSE backendName
            IN  (factories = {} \/ asked \notin factories)
                   => /\ bkEvent.create.backend = "none"
                      /\ bkEvent.create.factoryCalls = 0
                      /\ renderer = NoRenderer
    /\ \A i \in 1 .. Len(bkEvent.trace) :
         bkEvent.trace[i].step \in RendererMethods => bkEvent.trace[i].backend # "none"

C28_Witness ==
    /\ bkEvent.op = "OnFrame"
    /\ renderer = NoRenderer
    /\ factories # {}
    /\ backendName \notin factories

\* ----------------------------------------------------------------------
\* Properties of the key callback (SpecKey)

\* C26: OnKeyPressed is invoked only for GLFW_PRESS, never for GLFW_REPEAT,
\* and when it is invoked for a key it was invoked for before, a GLFW_RELEASE
\* of that key has arrived since.
C26_OncePerPress ==
    keyEvent.invoked =>
        /\ keyEvent.action = "GLFW_PRESS"
        /\ keyEvent.key \in TrackedKeys
        /\ keyEvent.sinceInvoked # "held"

C26_Witness ==
    /\ keyEvent.invoked
    /\ keyEvent.sinceInvoked = "released"
    /\ \E k \in TrackedKeys : k # keyEvent.key /\ keyState[k]

\* ----------------------------------------------------------------------
\* Properties of CreateTexture's queue submissions (SpecMip)

OpsOf(op) == {i \in 1 .. Len(submitted) : submitted[i].op = op}

\* C27: on the compute path of CreateTexture the copy from the intermediate
\* texture to the final one is submitted after the mip-generation commands,
\* as the last submission, and copies every level 0 .. mipLevelCount-1 to the
\* same level at that level's extent.
C27_CopyAfterMips ==
    texture.layers = 1 /\ texture.kind # "SRGB2D" =>
        /\ Cardinality(OpsOf("SubmitMips")) = 1
        /\ OpsOf("SubmitCopy") = {Len(submitted)}
        /\ \A m \in OpsOf("SubmitMips") : m < Len(submitted)
        /\ LET copy == submitted[Len(submitted)].commands
           IN  /\ Len(copy) = texture.mipLevelCount
               /\ \A k \in 1 .. Len(copy) :
                     /\ copy[k].srcLevel = k - 1
                     /\ copy[k].dstLevel = k - 1
                     /\ copy[k].width = Max(ShiftRight(texture.width, k - 1), 1)
                     /\ copy[k].height = Max(ShiftRight(texture.height, k - 1), 1)

C27_Witness ==
    /\ texture.layers = 1
    /\ texture.kind = "Normal2D"
    /\ texture.mipLevelCount >= 3
    /\ texture.width # texture.height
    /\ OpsOf("SubmitCopy") # {}

\* ----------------------------------------------------------------------
\* Properties of FloorPow2 (SpecPow2)

IsPowerOfTwo(n) == \E k \in 0 .. 12 : n = 2 ^ k

\* C29: FloorPow2 returns after at most 12 iterations; it returns 1 for
\* x <= 1 and the largest power of two not above x for 1 <= x <= 4096; the
\* face size CreateEnvironmentTextures takes from a panorama of width 1 to
\* 4096 is a power of two, at least 1 and at most that width.
C29_FloorPow2 ==
    cubeSize.called =>
        /\ cubeSize.iterations <= 12
        /\ (cubeSize.x <= 1 => cubeSize.result = 1)
        /\ (1 <= cubeSize.x /\ cubeSize.x <= kMaxEnvironmentWidth =>
              /\ IsPowerOfTwo(cubeSize.result)
              /\ cubeSize.result <= cubeSize.x
              /\ cubeSize.x < 2 * cubeSize.result
              /\ cubeSize.faceSize = cubeSize.result
              /\ cubeSize.faceSize >= 1
              /\ cubeSize.faceSize <= cubeSize.x)

C29_Witness ==
    /\ cubeSize.called
    /\ cubeSize.x = 4095
    /\ cubeSize.result = 2048

====
